---- MODULE Spec2Model ----
(***************************************************************************)
(* Log-reconstruction engine of the session viewer (lib/codex): the JSONL  *)
(* reader, the tool-call reconciler, the token timeline, the transcript,   *)
(* the session summary with its mtime-keyed cache, and the project rollup. *)
(*                                                                         *)
(* JavaScript objects are records whose DOMAIN holds exactly the           *)
(* properties that are set: an optional property that is absent (or        *)
(* undefined) is a field that is not in the DOMAIN.                        *)
(***************************************************************************)
EXTENDS Integers, Sequences, FiniteSets, TLC

VARIABLES
    events,     \* CodexEvent[]: the decoded envelopes handed to buildToolCalls
    calls,      \* buildToolCalls: the Map `calls`, in insertion order
    toolCalls,  \* buildToolCalls: the returned ledger
    tcPc,       \* buildToolCalls: "loop" inside the for loop, "done" once returned
    points,     \* buildTokenTimeline: the array `points` being filled
    tokenTimeline, \* buildTokenTimeline: the returned timeline
    tlPc,       \* buildTokenTimeline: "loop" inside the for loop, "done" once returned
    file,       \* readJsonl: the lines of raw.split("\n") the loop has reached
    rdPc,       \* readJsonl: "loop", "done" once returned, "failed" once it threw
    detail,     \* the views last derived from events
    prevDetail, \* the views derived the time before
    runs,       \* how many times the views were derived
    disk,       \* the session files: the lines and the mtime of each path
    summaryCache, \* summaryCache: path -> <<>> or <<[mtimeMs, summary]>>
    req,        \* the calls in flight: where each stands, and its locals
    smAcc,      \* parseSessionSummary: the accumulators of its loop over events
    smResult,   \* parseSessionSummary: what it computed, <<>> for null
    smPc,       \* parseSessionSummary: "loop" inside the for loop, "done" after it
    ruSessions, \* getProjectSummaries: what getSessionSummaries gave it
    ruNext,     \* getProjectSummaries: the index of the session its loop is at
    projMap,    \* getProjectSummaries: the Map, its values in insertion order
    ruProjects, \* getProjectSummaries: the returned array
    msAcc,      \* buildMessages: the array `messages` being filled
    msResult,   \* buildMessages: the returned transcript
    msPc,       \* buildMessages: "loop" inside the for loop, "done" once returned
    ruPc        \* getProjectSummaries: "collect" while getSessionSummaries
                \* runs, "loop" inside the for loop, "done" once returned

toolVars == <<calls, toolCalls, tcPc>>
timelineVars == <<points, tokenTimeline, tlPc>>
readerVars == <<file, rdPc>>
detailVars == <<detail, prevDetail, runs>>
serverVars == <<disk, summaryCache, req>>
summaryVars == <<smAcc, smResult, smPc>>
rollupVars == <<ruSessions, ruNext, projMap, ruProjects, ruPc>>
messageVars == <<msAcc, msResult, msPc>>

vars == <<events, toolVars, timelineVars, readerVars, detailVars, serverVars, summaryVars,
          rollupVars, messageVars>>

(***************************************************************************)
(* Bounds of the model.                                                    *)
(***************************************************************************)
MaxLen == 3
MaxRuns == 2
MaxFileLen == 2

(***************************************************************************)
(* JavaScript values.                                                      *)
(***************************************************************************)
Has(obj, f) == f \in DOMAIN obj

Put(obj, f, v) == [k \in DOMAIN obj \cup {f} |-> IF k = f THEN v ELSE obj[k]]

\* obj.f = v where v may be undefined (given as <<>>, or <<value>>): an
\* undefined value leaves the property out.
PutOpt(obj, f, opt) == IF opt = <<>> THEN obj ELSE Put(obj, f, opt[1])

\* obj.f as an optional: <<>> when the property is absent.
Opt(obj, f) == IF Has(obj, f) THEN <<obj[f]>> ELSE <<>>

\* a ?? b on optionals.
Coalesce(a, b) == IF a # <<>> THEN a ELSE b

\* A number that may be NaN.
Num(n) == [nan |-> FALSE, v |-> n]
NaN == [nan |-> TRUE, v |-> 0]

(***************************************************************************)
(* Timestamps are strings. The ones the model draws from: the epoch (what  *)
(* new Date(0).toISOString() gives), two later instants, and a string that *)
(* is no date.                                                             *)
(***************************************************************************)
Epoch == "1970-01-01T00:00:00.000Z"
T1 == "1970-01-01T00:00:01.000Z"
T2 == "1970-01-01T00:00:02.000Z"
BadTs == "garbage"

\* The paths of the files under the sessions directory, relative to
\* CODEX_ROOT: a file that is no rollout, and the logs of two sessions.
NotesPath == "sessions/notes.jsonl"
Path1 == "sessions/rollout-1970-01-01T00-00-01-s1.jsonl"
Path2 == "sessions/rollout-1970-01-01T00-00-02-s2.jsonl"

\* The rank of a string in the order of JavaScript's string comparison (by
\* code unit): digits sort before letters.
StrRank(s) ==
    CASE s = Epoch -> 0
      [] s = T1 -> 1
      [] s = T2 -> 2
      [] s = BadTs -> 3
      [] s = NotesPath -> 4
      [] s = Path1 -> 5
      [] s = Path2 -> 6

StrLt(a, b) == StrRank(a) < StrRank(b)
StrGt(a, b) == StrRank(a) > StrRank(b)

\* new Date(s).getTime()
GetTime(s) ==
    CASE s = Epoch -> Num(0)
      [] s = T1 -> Num(1000)
      [] s = T2 -> Num(2000)
      [] OTHER -> NaN

\* Math.max
Max(a, b) == IF a >= b THEN a ELSE b

\* a - b on numbers
NumSub(a, b) == IF a.nan \/ b.nan THEN NaN ELSE Num(a.v - b.v)

(***************************************************************************)
(* Texts (message contents, previews, paths) are sequences of characters,  *)
(* so that trimming, joining, slicing and lengths are what the code's      *)
(* string operations do.                                                   *)
(***************************************************************************)
IsSpace(c) == c \in {" ", "\n", "\t", "\r"}

\* The places of the characters that are not white space.
Inked(t) == {i \in DOMAIN t : ~IsSpace(t[i])}

Least(set) == CHOOSE i \in set : \A j \in set : i <= j
Greatest(set) == CHOOSE i \in set : \A j \in set : j <= i

\* text.trim()
TrimText(t) ==
    IF Inked(t) = {} THEN <<>> ELSE SubSeq(t, Least(Inked(t)), Greatest(Inked(t)))

\* texts.join("\n")
RECURSIVE JoinLines(_)
JoinLines(texts) ==
    IF texts = <<>> THEN <<>>
    ELSE IF Len(texts) = 1 THEN texts[1]
    ELSE texts[1] \o <<"\n">> \o JoinLines(Tail(texts))

IsNonEmpty(t) == t # <<>>

\* texts.filter(Boolean): the empty strings are dropped.
FilterNonEmpty(texts) == SelectSeq(texts, IsNonEmpty)

IsKept(mark) == mark.keep

Unmark(marks) == [i \in DOMAIN marks |-> marks[i].c]

\* text.replace(/\s+/g, " "): a run of white space leaves one blank, at the
\* place of its first character.
CollapseSpaces(t) ==
    Unmark(SelectSeq(
      [i \in DOMAIN t |->
         [c |-> IF IsSpace(t[i]) THEN " " ELSE t[i],
          keep |-> ~IsSpace(t[i]) \/ i = 1 \/ ~IsSpace(t[i - 1])]],
      IsKept))

\* The text of a chunk or summary item: "" unless it is an object with a
\* string text property.
ChunkText(chunk) == IF Has(chunk, "text") THEN chunk.text ELSE <<>>

\* extractText: content is given as an optional (<<>>: not an array).
ExtractText(content) ==
    IF content = <<>> THEN <<>>
    ELSE TrimText(JoinLines(FilterNonEmpty(
           [i \in DOMAIN content[1] |-> ChunkText(content[1][i])])))

NoPromptLogged ==
    <<"(", "n", "o", " ", "p", "r", "o", "m", "p", "t", " ",
      "l", "o", "g", "g", "e", "d", ")">>

PreviewLimit == 180

\* composePreview
ComposePreview(text) ==
    IF text = <<>> THEN NoPromptLogged
    ELSE LET cleaned == TrimText(CollapseSpaces(text))
         IN  IF Len(cleaned) > PreviewLimit
               THEN SubSeq(cleaned, 1, PreviewLimit - 3) \o <<".", ".", ".">>
               ELSE cleaned

UpperLetters ==
    <<"A", "B", "C", "D", "E", "F", "G", "H", "I", "J", "K", "L", "M",
      "N", "O", "P", "Q", "R", "S", "T", "U", "V", "W", "X", "Y", "Z">>

LowerLetters ==
    <<"a", "b", "c", "d", "e", "f", "g", "h", "i", "j", "k", "l", "m",
      "n", "o", "p", "q", "r", "s", "t", "u", "v", "w", "x", "y", "z">>

Digits == {"0", "1", "2", "3", "4", "5", "6", "7", "8", "9"}

\* c.toLowerCase()
ToLower(c) ==
    IF \E i \in DOMAIN UpperLetters : UpperLetters[i] = c
      THEN LowerLetters[CHOOSE i \in DOMAIN UpperLetters : UpperLetters[i] = c]
      ELSE c

IsSlugChar(c) == c \in Digits \/ \E i \in DOMAIN LowerLetters : LowerLetters[i] = c

\* text.replace(/[^a-z0-9]+/g, "-"): a run of other characters leaves one
\* dash, at the place of its first character.
DashRuns(t) ==
    Unmark(SelectSeq(
      [i \in DOMAIN t |->
         [c |-> IF IsSlugChar(t[i]) THEN t[i] ELSE "-",
          keep |-> IsSlugChar(t[i]) \/ i = 1 \/ IsSlugChar(t[i - 1])]],
      IsKept))

\* text.replace(/(^-|-$)/g, "")
StripDashes(t) ==
    LET front == IF t # <<>> /\ Head(t) = "-" THEN Tail(t) ELSE t
    IN  IF front # <<>> /\ front[Len(front)] = "-"
          THEN SubSeq(front, 1, Len(front) - 1)
          ELSE front

\* slugify
Slugify(value) ==
    StripDashes(DashRuns([i \in DOMAIN value |-> ToLower(value[i])]))

\* path.basename(p): what follows the last "/" once trailing ones are gone.
Basename(p) ==
    LET names == {i \in DOMAIN p : p[i] # "/"}
        end == IF names = {} THEN 0 ELSE Greatest(names)
        slashes == {i \in 1..end : p[i] = "/"}
        last == IF slashes = {} THEN 0 ELSE Greatest(slashes)
    IN  SubSeq(p, last + 1, end)

Unknown == <<"u", "n", "k", "n", "o", "w", "n">>

(***************************************************************************)
(* Envelopes (CodexEvent).                                                 *)
(***************************************************************************)
\* An envelope with an optional timestamp.
Envelope(tsOpt, type, payload) ==
    PutOpt([type |-> type, payload |-> payload], "timestamp", tsOpt)

\* toRecord(event.payload): <<>> when the payload is missing or no object.
ToRecord(event) == Opt(event, "payload")

\* typeof event.timestamp === "string" ? event.timestamp : undefined
EventTimestamp(event) == Opt(event, "timestamp")

CallIds == {"c1", "c2"}

ToolTimestamps == {<<>>, <<T1>>, <<T2>>}

\* Call-start envelopes: function_call and custom_tool_call, with and
\* without a status.
CallStarts ==
    { Envelope(ts, "response_item",
               PutOpt([type |-> "function_call", call_id |-> id,
                       name |-> "shell", arguments |-> "ls"], "status", st))
        : ts \in ToolTimestamps, id \in CallIds,
          st \in {<<>>, <<"in_progress">>} }
    \cup
    { Envelope(ts, "response_item",
               PutOpt([type |-> "custom_tool_call", call_id |-> id,
                       name |-> "apply_patch", input |-> "patch"], "status", st))
        : ts \in ToolTimestamps, id \in CallIds,
          st \in {<<>>, <<"completed">>} }

\* Call-result envelopes. A custom result's output is a string that holds
\* JSON with an output property, or a string that is no JSON.
CallResults ==
    { Envelope(ts, "response_item",
               [type |-> "function_call_output", call_id |-> id, output |-> "ok"])
        : ts \in ToolTimestamps, id \in CallIds }
    \cup
    { Envelope(ts, "response_item",
               [type |-> "custom_tool_call_output", call_id |-> id, output |-> out])
        : ts \in ToolTimestamps, id \in CallIds,
          out \in {"{\"output\":\"done\"}", "not json"} }

ToolEnvelopes == CallStarts \cup CallResults

(***************************************************************************)
(* safeParse: JSON.parse of the strings the model draws from; <<>> when    *)
(* JSON.parse throws.                                                      *)
(***************************************************************************)
SafeParse(s) ==
    CASE s = "{\"output\":\"done\"}" -> <<[output |-> "done"]>>
      [] OTHER -> <<>>

(***************************************************************************)
(* buildToolCalls                                                          *)
(***************************************************************************)
\* calls.get(id): <<>> when the map has no entry.
MapGet(map, id) ==
    LET hit == {i \in DOMAIN map : map[i].id = id}
    IN  IF hit = {} THEN <<>> ELSE <<map[CHOOSE i \in hit : TRUE]>>

\* calls.set(id, call): an existing key keeps its place in the order.
MapSet(map, id, call) ==
    IF \E i \in DOMAIN map : map[i].id = id
      THEN [i \in DOMAIN map |-> IF map[i].id = id THEN call ELSE map[i]]
      ELSE Append(map, call)

\* The function_call branch.
FunctionCallStep(map, payload, timestamp) ==
    LET id == payload.call_id
        fresh == [id |-> id,
                  name |-> Coalesce(Opt(payload, "name"), <<"function_call">>)[1],
                  toolKind |-> "function",
                  status |-> Coalesce(Opt(payload, "status"), <<"in_progress">>)[1]]
        existing == Coalesce(MapGet(map, id), <<fresh>>)[1]
        named == Put(existing, "name",
                     Coalesce(Opt(payload, "name"), <<existing.name>>)[1])
        withInput == PutOpt(named, "input", Opt(payload, "arguments"))
        started == PutOpt(withInput, "startedAt",
                          Coalesce(Opt(withInput, "startedAt"), timestamp))
        final == Put(started, "status",
                     Coalesce(Opt(payload, "status"), <<started.status>>)[1])
    IN  MapSet(map, id, final)

\* A variant of the function_call_output branch that makes a record for an
\* id the Map does not have.
FunctionOutputStepWithStub(map, payload, timestamp) ==
    LET id == payload.call_id
        stub == [id |-> id, name |-> "function_call", toolKind |-> "function",
                 status |-> "in_progress"]
        existing == Coalesce(MapGet(map, id), <<stub>>)[1]
        withOutput == PutOpt(existing, "output", Opt(payload, "output"))
        completed == PutOpt(withOutput, "completedAt",
                            Coalesce(timestamp, Opt(withOutput, "completedAt")))
    IN  MapSet(map, id, Put(completed, "status", "completed"))

\* The function_call_output branch.
FunctionOutputStep(map, payload, timestamp) ==
    LET id == payload.call_id
        found == MapGet(map, id)
    IN  IF found = <<>> THEN map
        ELSE LET existing == found[1]
                 withOutput == PutOpt(existing, "output", Opt(payload, "output"))
                 completed == PutOpt(withOutput, "completedAt",
                                     Coalesce(timestamp, Opt(withOutput, "completedAt")))
             IN  MapSet(map, id, Put(completed, "status", "completed"))

\* The custom_tool_call branch.
CustomCallStep(map, payload, timestamp) ==
    LET id == payload.call_id
        fresh == [id |-> id,
                  name |-> Coalesce(Opt(payload, "name"), <<"custom_tool">>)[1],
                  toolKind |-> "custom",
                  status |-> Coalesce(Opt(payload, "status"), <<"in_progress">>)[1]]
        existing == Coalesce(MapGet(map, id), <<fresh>>)[1]
        withInput == PutOpt(existing, "input", Opt(payload, "input"))
        started == PutOpt(withInput, "startedAt",
                          Coalesce(Opt(withInput, "startedAt"), timestamp))
        final == Put(started, "status",
                     Coalesce(Opt(payload, "status"), <<started.status>>)[1])
    IN  MapSet(map, id, final)

\* The custom_tool_call_output branch. The payload's output is a string in
\* every envelope of the model.
CustomOutputStep(map, payload, timestamp) ==
    LET id == payload.call_id
        found == MapGet(map, id)
    IN  IF found = <<>> THEN map
        ELSE LET existing == found[1]
                 parsed == IF Has(payload, "output") THEN SafeParse(payload.output) ELSE <<>>
                 parsedOutput == IF parsed = <<>> THEN <<>> ELSE Opt(parsed[1], "output")
                 withOutput ==
                     IF parsedOutput # <<>> /\ parsedOutput[1] # ""
                       THEN Put(existing, "output", parsedOutput[1])
                       ELSE PutOpt(existing, "output", Opt(payload, "output"))
                 parsedMeta == IF parsed = <<>> THEN <<>> ELSE Opt(parsed[1], "metadata")
                 withMeta == PutOpt(withOutput, "metadata",
                                    Coalesce(parsedMeta, Opt(withOutput, "metadata")))
                 completed == PutOpt(withMeta, "completedAt",
                                     Coalesce(timestamp, Opt(withMeta, "completedAt")))
             IN  MapSet(map, id, Put(completed, "status", "completed"))

\* One iteration of the for loop over events.
ToolStep(map, event) ==
    IF event.type # "response_item" THEN map
    ELSE IF ToRecord(event) = <<>> THEN map
    ELSE LET payload == ToRecord(event)[1]
             timestamp == EventTimestamp(event)
             ptype == Coalesce(Opt(payload, "type"), <<"">>)[1]
         IN  IF ~Has(payload, "call_id") THEN map
             ELSE CASE ptype = "function_call" -> FunctionCallStep(map, payload, timestamp)
                    [] ptype = "function_call_output" -> FunctionOutputStep(map, payload, timestamp)
                    [] ptype = "custom_tool_call" -> CustomCallStep(map, payload, timestamp)
                    [] ptype = "custom_tool_call_output" -> CustomOutputStep(map, payload, timestamp)
                    [] OTHER -> map

\* The post-pass: durationMs for a record with both timestamps.
FinalizeCallWithoutDuration(call) == call

\* A variant of the post-pass that reports a negative duration as 0.
FinalizeCallClamped(call) ==
    IF Has(call, "startedAt") /\ Has(call, "completedAt")
      THEN LET d == NumSub(GetTime(call.completedAt), GetTime(call.startedAt))
           IN  Put(call, "durationMs", IF d.nan \/ d.v >= 0 THEN d ELSE Num(0))
      ELSE call

\* The post-pass of lines 407-412 on one record.
FinalizeCall(call) ==
    IF Has(call, "startedAt") /\ Has(call, "completedAt")
      THEN Put(call, "durationMs",
               NumSub(GetTime(call.completedAt), GetTime(call.startedAt)))
      ELSE call

(***************************************************************************)
(* Array.prototype.sort as Node's engine (V8) runs it on an array shorter  *)
(* than 64 elements: the leading run is found (and reversed when it is     *)
(* strictly descending), then the rest is placed by binary insertion. A    *)
(* comparator result of NaN counts as 0.                                   *)
(***************************************************************************)
\* The comparators with the one of getProjectSummaries turned round: the
\* project with the earlier latestActivityAt goes first.
CompareProjectsAscending(kind, a, b) ==
    CASE kind = "toolCalls" ->
           IF Has(a, "startedAt") /\ Has(b, "startedAt")
             THEN (IF StrGt(a.startedAt, b.startedAt) THEN 1 ELSE -1)
             ELSE 0
      [] kind = "timeline" ->
           LET d == NumSub(a.timestampMs, b.timestampMs)
           IN  IF d.nan THEN 0 ELSE d.v
      [] kind = "messages" ->
           IF StrGt(a.timestamp, b.timestamp) THEN 1 ELSE -1
      [] kind = "sessions" ->
           IF StrLt(a.lastActivityAt, b.lastActivityAt) THEN 1 ELSE -1
      [] kind = "projects" ->
           IF ~Has(a, "latestActivityAt") \/ ~Has(b, "latestActivityAt") THEN 0
           ELSE IF StrGt(a.latestActivityAt, b.latestActivityAt) THEN 1 ELSE -1
      [] kind = "files" ->
           IF StrLt(a.relativePath, b.relativePath) THEN -1
           ELSE IF StrGt(a.relativePath, b.relativePath) THEN 1 ELSE 0

\* The comparators the code passes to sort, by the array they order.
Compare(kind, a, b) ==
    CASE kind = "toolCalls" ->
           IF Has(a, "startedAt") /\ Has(b, "startedAt")
             THEN (IF StrGt(a.startedAt, b.startedAt) THEN 1 ELSE -1)
             ELSE 0
      [] kind = "timeline" ->
           LET d == NumSub(a.timestampMs, b.timestampMs)
           IN  IF d.nan THEN 0 ELSE d.v
      [] kind = "messages" ->
           IF StrGt(a.timestamp, b.timestamp) THEN 1 ELSE -1
      [] kind = "sessions" ->
           IF StrLt(a.lastActivityAt, b.lastActivityAt) THEN 1 ELSE -1
      [] kind = "projects" ->
           IF ~Has(a, "latestActivityAt") \/ ~Has(b, "latestActivityAt") THEN 0
           ELSE IF StrLt(a.latestActivityAt, b.latestActivityAt) THEN 1 ELSE -1
      [] kind = "files" ->
           IF StrLt(a.relativePath, b.relativePath) THEN -1
           ELSE IF StrGt(a.relativePath, b.relativePath) THEN 1 ELSE 0

Reverse(arr) == [i \in DOMAIN arr |-> arr[Len(arr) + 1 - i]]

\* The length of the run that starts the array: idx is the next element to
\* look at, the run so far ends at idx - 1.
RECURSIVE RunLength(_, _, _, _)
RunLength(kind, arr, idx, descending) ==
    IF idx > Len(arr) THEN idx - 1
    ELSE LET order == Compare(kind, arr[idx], arr[idx - 1])
         IN  IF (descending /\ order >= 0) \/ (~descending /\ order < 0)
               THEN idx - 1
               ELSE RunLength(kind, arr, idx + 1, descending)

\* Binary search for the pivot's place in arr[1..right]: the number of
\* elements that stay before it.
RECURSIVE InsertionPoint(_, _, _, _, _)
InsertionPoint(kind, arr, pivot, left, right) ==
    IF left >= right THEN left
    ELSE LET mid == left + ((right - left) \div 2)
             order == Compare(kind, pivot, arr[mid + 1])
         IN  IF order < 0
               THEN InsertionPoint(kind, arr, pivot, left, mid)
               ELSE InsertionPoint(kind, arr, pivot, mid + 1, right)

\* Places arr[start], arr[start + 1], ... into the sorted prefix before them.
RECURSIVE BinaryInsertionSort(_, _, _)
BinaryInsertionSort(kind, arr, start) ==
    IF start > Len(arr) THEN arr
    ELSE LET pivot == arr[start]
             left == InsertionPoint(kind, arr, pivot, 0, start - 1)
             placed == SubSeq(arr, 1, left) \o <<pivot>>
                       \o SubSeq(arr, left + 1, start - 1)
                       \o SubSeq(arr, start + 1, Len(arr))
         IN  BinaryInsertionSort(kind, placed, start + 1)

ArraySort(kind, arr) ==
    IF Len(arr) < 2 THEN arr
    ELSE LET descending == Compare(kind, arr[2], arr[1]) < 0
             run == RunLength(kind, arr, 3, descending)
             made == IF descending
                       THEN Reverse(SubSeq(arr, 1, run)) \o SubSeq(arr, run + 1, Len(arr))
                       ELSE arr
         IN  BinaryInsertionSort(kind, made, run + 1)

\* The return statement of buildToolCalls: the post-pass over calls.values(),
\* then the sort by startedAt.
FinishToolCalls(map) ==
    ArraySort("toolCalls", [i \in DOMAIN map |-> FinalizeCall(map[i])])

\* buildToolCalls as a function of its argument.
RECURSIVE ToolFold(_, _)
ToolFold(map, evts) ==
    IF evts = <<>> THEN map ELSE ToolFold(ToolStep(map, Head(evts)), Tail(evts))

BuildToolCalls(evts) == FinishToolCalls(ToolFold(<<>>, evts))


(***************************************************************************)
(* buildTokenTimeline                                                      *)
(***************************************************************************)
Usage100 ==
    [input_tokens |-> 80, cached_input_tokens |-> 30, output_tokens |-> 20,
     reasoning_output_tokens |-> 5, total_tokens |-> 100]

Usage150 ==
    [input_tokens |-> 110, cached_input_tokens |-> 40, output_tokens |-> 40,
     reasoning_output_tokens |-> 10, total_tokens |-> 150]

TimelineTimestamps == {<<>>, <<T1>>, <<T2>>, <<BadTs>>}

\* Usage-report envelopes: with usage info, and with info null.
TokenEnvelopes ==
    { Envelope(ts, "event_msg",
               [type |-> "token_count",
                info |-> [total_token_usage |-> u, model_context_window |-> 4096]])
        : ts \in TimelineTimestamps, u \in {Usage100, Usage150} }
    \cup
    { Envelope(ts, "event_msg", [type |-> "token_count"])
        : ts \in TimelineTimestamps }

\* One iteration of the for loop over events.
TimelineStep(pts, event) ==
    IF event.type # "event_msg" THEN pts
    ELSE IF ToRecord(event) = <<>> THEN pts
    ELSE LET payload == ToRecord(event)[1]
         IN  IF /\ Opt(payload, "type") = <<"token_count">>
                /\ Has(payload, "info")
                /\ Has(payload.info, "total_token_usage")
               THEN LET total == payload.info.total_token_usage
                        timestamp == Coalesce(EventTimestamp(event), <<Epoch>>)[1]
                    IN  Append(pts,
                          PutOpt([timestamp |-> timestamp,
                                  timestampMs |-> GetTime(timestamp),
                                  totalTokens |-> total.total_tokens,
                                  inputTokens |-> total.input_tokens,
                                  cachedTokens |-> total.cached_input_tokens,
                                  userTokens |-> Max(0, total.input_tokens
                                                        - total.cached_input_tokens),
                                  outputTokens |-> total.output_tokens,
                                  reasoningTokens |-> total.reasoning_output_tokens],
                                 "contextWindow",
                                 Opt(payload.info, "model_context_window")))
               ELSE pts

\* The return statement: the sort by timestampMs.
FinishTimeline(pts) == ArraySort("timeline", pts)

RECURSIVE TimelineFold(_, _)
TimelineFold(pts, evts) ==
    IF evts = <<>> THEN pts
    ELSE TimelineFold(TimelineStep(pts, Head(evts)), Tail(evts))

\* buildTokenTimeline as a function of its argument.
BuildTokenTimeline(evts) == FinishTimeline(TimelineFold(<<>>, evts))

(***************************************************************************)
(* buildMessages                                                           *)
(***************************************************************************)
FixBug == <<"f", "i", "x", " ", "b", "u", "g">>

ReasoningHidden ==
    <<"R", "e", "a", "s", "o", "n", "i", "n", "g", " ",
      "l", "o", "g", " ", "h", "i", "d", "d", "e", "n">>

\* event.type, "" when the envelope has none.
EventType(event) == Coalesce(Opt(event, "type"), <<"">>)[1]

\* `${event.timestamp}` in a template literal
TimestampInTemplate(event) == Coalesce(Opt(event, "timestamp"), <<"undefined">>)[1]

\* typeof event.timestamp === "string" ? event.timestamp : new Date(0).toISOString()
TimestampOrEpoch(event) == Coalesce(EventTimestamp(event), <<Epoch>>)[1]

\* Lines 435-445 without the fallback of line 450: an empty text stays empty.
ReasoningTextOrEmpty(payload) ==
    IF Has(payload, "summary") /\ payload.summary.isArray
      THEN JoinLines(FilterNonEmpty(
             [i \in DOMAIN payload.summary.items |-> ChunkText(payload.summary.items[i])]))
      ELSE ReasoningHidden

\* Lines 435-450: the text of a reasoning entry. The summary property of the
\* payload is a JSON value: a list (isArray) with its items, or another value.
ReasoningText(payload) ==
    LET summaryText ==
          IF Has(payload, "summary") /\ payload.summary.isArray
            THEN JoinLines(FilterNonEmpty(
                   [i \in DOMAIN payload.summary.items |->
                      ChunkText(payload.summary.items[i])]))
            ELSE ReasoningHidden
    IN  IF summaryText = <<>> THEN ReasoningHidden ELSE summaryText

\* One iteration of the for loop over events.
MessageStep(msgs, event) ==
    LET payload == ToRecord(event)
        ptype == IF payload = <<>> THEN "" ELSE Coalesce(Opt(payload[1], "type"), <<"">>)[1]
        n == ToString(Len(msgs))
    IN  IF EventType(event) = "response_item" /\ payload = <<>> THEN msgs
        ELSE IF EventType(event) = "response_item" /\ ptype = "message"
          THEN Append(msgs,
                 [id |-> TimestampInTemplate(event) \o "-message-" \o n,
                  timestamp |-> TimestampOrEpoch(event),
                  role |-> Coalesce(Opt(payload[1], "role"), <<"assistant">>)[1],
                  kind |-> "text",
                  text |-> ExtractText(Opt(payload[1], "content"))])
        ELSE IF EventType(event) = "response_item" /\ ptype = "reasoning"
          THEN Append(msgs,
                 [id |-> TimestampInTemplate(event) \o "-reasoning-" \o n,
                  timestamp |-> TimestampOrEpoch(event),
                  role |-> "assistant",
                  kind |-> "reasoning",
                  text |-> ReasoningText(payload[1])])
        ELSE IF EventType(event) = "event_msg" /\ ptype = "agent_reasoning"
          THEN Append(msgs,
                 [id |-> TimestampInTemplate(event) \o "-agent-" \o n,
                  timestamp |-> TimestampOrEpoch(event),
                  role |-> "assistant",
                  kind |-> "status",
                  text |-> Coalesce(Opt(payload[1], "text"), << <<>> >>)[1]])
        ELSE msgs

RECURSIVE MessageFold(_, _)
MessageFold(msgs, evts) ==
    IF evts = <<>> THEN msgs
    ELSE MessageFold(MessageStep(msgs, Head(evts)), Tail(evts))

\* buildMessages with the array `messages` kept from one call to the next.
BuildMessagesKeepingArray(evts) ==
    ArraySort("messages", MessageFold(detail.messages, evts))

\* buildMessages as a function of its argument.
BuildMessages(evts) == ArraySort("messages", MessageFold(<<>>, evts))

(***************************************************************************)
(* parseSessionSummary: the fold over the decoded envelopes.               *)
(***************************************************************************)
\* The accumulators before the loop.
SummaryStart ==
    [meta |-> <<>>, preview |-> <<>>, startedAt |-> "", lastActivityAt |-> "",
     tokens |-> <<>>, contextWindow |-> <<>>, toolCalls |-> {}]

\* A variant that keeps the larger of the totals seen.
TokenStepKeepingMax(kept, info) ==
    IF kept.tokens # <<>> /\ kept.tokens[1].total_tokens >= info.total_token_usage.total_tokens
      THEN kept
      ELSE [kept EXCEPT !.tokens = Opt(info, "total_token_usage"),
                        !.contextWindow = Opt(info, "model_context_window")]

\* Lines 277-278: the usage report replaces what the loop kept.
TokenStep(kept, info) ==
    [kept EXCEPT !.tokens = Opt(info, "total_token_usage"),
                 !.contextWindow = Opt(info, "model_context_window")]

\* A variant that takes the id of every payload that has one, the results'
\* ids too.
CallIdStepAnyEnvelope(kept, payload) ==
    IF Has(payload, "call_id")
      THEN [kept EXCEPT !.toolCalls = @ \cup {payload.call_id}]
      ELSE kept

\* Lines 266-271: toolCalls.add(payload.call_id) for a call-start payload.
CallIdStep(kept, payload) ==
    IF /\ Has(payload, "type")
       /\ payload.type \in {"function_call", "custom_tool_call"}
       /\ Has(payload, "call_id")
      THEN [kept EXCEPT !.toolCalls = @ \cup {payload.call_id}]
      ELSE kept

\* One iteration of the for loop over events.
SummaryStep(kept, event) ==
    LET ts == EventTimestamp(event)
        timed == IF ts # <<>> /\ ts[1] # ""
                   THEN [kept EXCEPT !.lastActivityAt = ts[1],
                                    !.startedAt = IF @ = "" THEN ts[1] ELSE @]
                   ELSE kept
        payload == ToRecord(event)
        ptype == IF payload = <<>> THEN "" ELSE Coalesce(Opt(payload[1], "type"), <<"">>)[1]
    IN  IF EventType(event) = "session_meta"
          THEN IF payload = <<>> THEN timed
               ELSE [timed EXCEPT
                       !.meta = payload,
                       !.startedAt = Coalesce(Opt(payload[1], "timestamp"), <<@>>)[1]]
        ELSE IF EventType(event) = "response_item"
          THEN IF payload = <<>> THEN timed
               ELSE LET previewed ==
                          IF /\ ptype = "message"
                             /\ Opt(payload[1], "role") = <<"user">>
                             /\ timed.preview = <<>>
                            THEN [timed EXCEPT !.preview =
                                    ComposePreview(ExtractText(Opt(payload[1], "content")))]
                            ELSE timed
                    IN  CallIdStep(previewed, payload[1])
        ELSE IF EventType(event) = "event_msg"
          THEN IF payload # <<>> /\ ptype = "token_count" /\ Has(payload[1], "info")
                 THEN TokenStep(timed, payload[1].info)
                 ELSE timed
        ELSE timed

RECURSIVE SummaryFold(_, _)
SummaryFold(acc, evts) ==
    IF evts = <<>> THEN acc
    ELSE SummaryFold(SummaryStep(acc, Head(evts)), Tail(evts))

\* a || b on strings
OrElse(a, b) == IF a # "" THEN a ELSE b

\* The object of lines 285-301, from the session-meta payload the loop kept.
\* src is the session file: its path and its session id.
SummaryRecord(meta, acc, src) ==
    LET cwd == Coalesce(Opt(meta, "cwd"), <<Unknown>>)[1]
        metaTimestamp == Coalesce(Opt(meta, "timestamp"), <<"">>)[1]
        usage == acc.tokens
    IN  PutOpt(
          [id |-> src.sessionId,
           projectId |-> Slugify(cwd),
           projectName |-> IF Basename(cwd) # <<>> THEN Basename(cwd)
                           ELSE IF cwd # <<>> THEN cwd ELSE Unknown,
           projectPath |-> cwd,
           relativePath |-> src.relativePath,
           startedAt |-> OrElse(acc.startedAt, OrElse(metaTimestamp, Epoch)),
           lastActivityAt |->
               OrElse(acc.lastActivityAt,
                      OrElse(acc.startedAt, OrElse(metaTimestamp, Epoch))),
           preview |-> IF acc.preview # <<>> THEN acc.preview ELSE NoPromptLogged,
           totalTokens |-> IF usage = <<>> THEN 0 ELSE usage[1].total_tokens,
           cachedTokens |-> IF usage = <<>> THEN 0 ELSE usage[1].cached_input_tokens,
           userTokens |-> IF usage = <<>> THEN 0
                          ELSE Max(0, usage[1].input_tokens
                                      - usage[1].cached_input_tokens),
           outputTokens |-> IF usage = <<>> THEN 0 ELSE usage[1].output_tokens,
           reasoningTokens |-> IF usage = <<>> THEN 0
                               ELSE usage[1].reasoning_output_tokens,
           toolCallCount |-> Cardinality(acc.toolCalls)],
          "contextWindow", acc.contextWindow)

\* A variant that summarises a log without session-meta as a session of the
\* project "unknown" instead of giving null.
SummaryOfAnyLog(acc, src) ==
    << SummaryRecord(IF acc.meta = <<>> THEN [type |-> "session_meta"] ELSE acc.meta[1],
                     acc, src) >>

\* The value parseSessionSummary computes after the loop: <<>> (null) without
\* a session-meta payload, else the summary.
SummaryOf(acc, src) ==
    IF acc.meta = <<>> THEN <<>>
    ELSE << SummaryRecord(acc.meta[1], acc, src) >>

\* Lines 234-301 as a function of the decoded envelopes.
SummarizeEvents(evts, src) == SummaryOf(SummaryFold(SummaryStart, evts), src)

(***************************************************************************)
(* readJsonl. A line of the file is its text between two line breaks: the  *)
(* white space around it (pad) and what is left once trimmed (body). A     *)
(* body is the JSON text of an object (value: the object), of an array, a  *)
(* number or null, a text that is no JSON, the diagnostic line, or empty.  *)
(***************************************************************************)
Line(pad, body) == [pad |-> pad, body |-> body]

ObjectBody(value) == [kind |-> "object", value |-> value]
OtherBody(kind, text) == [kind |-> kind, text |-> text]

HomeUProj == <<"/", "h", "o", "m", "e", "/", "u", "/", "p", "r", "o", "j">>

MetaEnvelope ==
    Envelope(<<T1>>, "session_meta", [id |-> "s1", cwd |-> HomeUProj])

UserEnvelope ==
    Envelope(<<T2>>, "response_item",
             [type |-> "message", role |-> "user",
              content |-> <<[type |-> "input_text", text |-> FixBug]>>])

\* An envelope with no timestamp and no payload: still a JSON object.
BareEnvelope == [type |-> "turn_context"]

InvalidBodies ==
    {OtherBody("invalid", "{\"type\":\"response_item\",\"payl"),
     OtherBody("invalid", "oops")}

LineBodies ==
    {ObjectBody(MetaEnvelope), ObjectBody(UserEnvelope), ObjectBody(BareEnvelope)}
    \cup InvalidBodies
    \cup {OtherBody("array", "[1,2]"), OtherBody("number", "42"),
          OtherBody("null", "null"), OtherBody("empty", ""),
          OtherBody("diagnostic", "Total output lines: 12")}

Lines == {Line(pad, body) : pad \in BOOLEAN, body \in LineBodies}

\* line.trim()
Trim(line) == line.body

\* lineFilter: "" for an empty line and for the diagnostic line.
LineFilter(body) ==
    IF body.kind = "empty" \/ body.kind = "diagnostic"
      THEN OtherBody("empty", "")
      ELSE body

\* JSON.parse: the value, or threw.
JsonParse(body) ==
    CASE body.kind = "object" -> [threw |-> FALSE, isObject |-> TRUE, value |-> <<body.value>>]
      [] body.kind \in {"array", "number", "null"} ->
           [threw |-> FALSE, isObject |-> FALSE, value |-> <<>>]
      [] OTHER -> [threw |-> TRUE, isObject |-> FALSE, value |-> <<>>]

\* A step of the loop that lets the exception of JSON.parse escape.
ReadStepNoCatch(evts, line) ==
    LET cleaned == LineFilter(Trim(line))
        parsed == JsonParse(cleaned)
    IN  IF cleaned.kind = "empty" THEN [threw |-> FALSE, events |-> evts]
        ELSE IF parsed.threw THEN [threw |-> TRUE, events |-> evts]
        ELSE IF parsed.isObject
               THEN [threw |-> FALSE, events |-> Append(evts, parsed.value[1])]
               ELSE [threw |-> FALSE, events |-> evts]

\* A step of the loop that puts the envelope at the head of the array
\* (unshift for push).
ReadStepUnshift(evts, line) ==
    LET cleaned == LineFilter(Trim(line))
        parsed == JsonParse(cleaned)
    IN  IF cleaned.kind = "empty" THEN [threw |-> FALSE, events |-> evts]
        ELSE IF parsed.threw THEN [threw |-> FALSE, events |-> evts]
        ELSE IF parsed.isObject
               THEN [threw |-> FALSE, events |-> <<parsed.value[1]>> \o evts]
               ELSE [threw |-> FALSE, events |-> evts]

\* One iteration of the for loop over the lines: threw says whether an
\* exception leaves the loop.
ReadStep(evts, line) ==
    LET cleaned == LineFilter(Trim(line))
        parsed == JsonParse(cleaned)
    IN  IF cleaned.kind = "empty" THEN [threw |-> FALSE, events |-> evts]
        ELSE IF parsed.threw THEN [threw |-> FALSE, events |-> evts]
        ELSE IF parsed.isObject
               THEN [threw |-> FALSE, events |-> Append(evts, parsed.value[1])]
               ELSE [threw |-> FALSE, events |-> evts]

\* readJsonl as a function of the file's lines.
RECURSIVE ReadFold(_, _)
ReadFold(acc, lines) ==
    IF lines = <<>> \/ acc.threw THEN acc
    ELSE ReadFold(ReadStep(acc.events, Head(lines)), Tail(lines))

ReadJsonl(lines) == ReadFold([threw |-> FALSE, events |-> <<>>], lines)


(***************************************************************************)
(* Session files. A file is known by its path under CODEX_ROOT and by what *)
(* extractSessionId finds in its name: <<>> for a name that is no rollout. *)
(***************************************************************************)
SessionFile(relativePath, idOpt) ==
    PutOpt([relativePath |-> relativePath], "sessionId", idOpt)

File1 == SessionFile(Path1, <<"s1">>)
File2 == SessionFile(Path2, <<"s2">>)
Notes == SessionFile(NotesPath, <<>>)

\* extractSessionId
ExtractSessionId(src) == Opt(src, "sessionId")

\* emptySummary
EmptySummary ==
    [id |-> "", projectId |-> <<>>, projectName |-> <<>>, projectPath |-> <<>>,
     relativePath |-> "", startedAt |-> Epoch, lastActivityAt |-> Epoch,
     preview |-> <<>>, totalTokens |-> 0, cachedTokens |-> 0, userTokens |-> 0,
     outputTokens |-> 0, reasoningTokens |-> 0, toolCallCount |-> 0]

\* The builders of getSessionDetail and the summary fold, on one decoded
\* sequence.
DeriveViews(evts) ==
    [summary |-> SummarizeEvents(evts, File1),
     messages |-> BuildMessages(evts),
     tokenTimeline |-> BuildTokenTimeline(evts),
     toolCalls |-> BuildToolCalls(evts)]

\* The envelopes the views are derived from: one or two of each kind the
\* builders select.
MixedEnvelopes ==
    {MetaEnvelope, UserEnvelope,
     Envelope(<<>>, "response_item", [type |-> "message"]),
     Envelope(<<T1>>, "response_item", [type |-> "reasoning"]),
     Envelope(<<T2>>, "event_msg", [type |-> "agent_reasoning", text |-> FixBug]),
     Envelope(<<T1>>, "response_item",
              [type |-> "function_call", call_id |-> "c1", name |-> "shell",
               arguments |-> "ls"]),
     Envelope(<<T2>>, "response_item",
              [type |-> "function_call_output", call_id |-> "c1", output |-> "ok"]),
     Envelope(<<T2>>, "response_item",
              [type |-> "custom_tool_call", call_id |-> "c1", name |-> "apply_patch",
               input |-> "patch"]),
     Envelope(<<T2>>, "response_item",
              [type |-> "function_call", call_id |-> "c2", name |-> "shell",
               arguments |-> "ls"]),
     Envelope(<<T1>>, "response_item",
              [type |-> "function_call_output", call_id |-> "c2", output |-> "ok"]),
     Envelope(<<T1>>, "response_item", [type |-> "function_call", name |-> "shell"]),
     Envelope(<<T1>>, "event_msg",
              [type |-> "token_count", info |-> [total_token_usage |-> Usage100]]),
     Envelope(<<BadTs>>, "event_msg",
              [type |-> "token_count", info |-> [total_token_usage |-> Usage150]])}

(***************************************************************************)
(* The sessions directory, getSessionSummaries, getProjectSummaries and    *)
(* getSessionDetail.                                                       *)
(***************************************************************************)
\* listSessionFiles: what the glob finds, sorted.
ListSessionFiles == ArraySort("files", <<File2, Notes, File1>>)

\* The paths parseSessionSummary goes to the disk for.
Paths == {Path1, Path2}

\* The file of a path.
FileAt(path) == CHOOSE f \in {File1, File2, Notes} : f.relativePath = path

\* findSessionFile: <<>> (undefined) when no file carries the id.
FindSessionFile(sessionId) ==
    LET found == SelectSeq(ListSessionFiles,
                           LAMBDA f : ExtractSessionId(f) = <<sessionId>>)
    IN  IF found = <<>> THEN <<>> ELSE <<Head(found)>>

\* The return statement of getSessionSummaries.
SortSummaries(summaries) == ArraySort("sessions", summaries)

\* A variant of the loop body that keeps the lastActivityAt of the session
\* it saw last.
RollupStepKeepingLast(map, session) ==
    LET found == MapGet(map, session.projectId)
        current == IF found # <<>> THEN found[1]
                   ELSE [id |-> session.projectId, name |-> session.projectName,
                         path |-> session.projectPath, sessionCount |-> 0,
                         totalTokens |-> 0]
        counted == [current EXCEPT !.sessionCount = @ + 1,
                                   !.totalTokens = @ + session.totalTokens]
    IN  MapSet(map, session.projectId,
               Put(counted, "latestActivityAt", session.lastActivityAt))

\* One iteration of the loop of getProjectSummaries over the sessions.
RollupStep(map, session) ==
    LET found == MapGet(map, session.projectId)
        current == IF found # <<>> THEN found[1]
                   ELSE [id |-> session.projectId, name |-> session.projectName,
                         path |-> session.projectPath, sessionCount |-> 0,
                         totalTokens |-> 0]
        counted == [current EXCEPT !.sessionCount = @ + 1,
                                   !.totalTokens = @ + session.totalTokens]
        latest == IF \/ ~Has(counted, "latestActivityAt")
                     \/ counted.latestActivityAt = ""
                     \/ StrLt(counted.latestActivityAt, session.lastActivityAt)
                    THEN Put(counted, "latestActivityAt", session.lastActivityAt)
                    ELSE counted
    IN  MapSet(map, session.projectId, latest)

RECURSIVE RollupFold(_, _)
RollupFold(map, sessions) ==
    IF sessions = <<>> THEN map
    ELSE RollupFold(RollupStep(map, Head(sessions)), Tail(sessions))

\* getProjectSummaries, given what getSessionSummaries returned.
ProjectSummaries(sessions) == ArraySort("projects", RollupFold(<<>>, sessions))

\* A variant of getSessionDetail's return that gives null when
\* parseSessionSummary gave null.
SessionDetailOrNull(summary, evts) ==
    IF summary = <<>> THEN <<>>
    ELSE << [summary |-> summary[1],
             messages |-> BuildMessages(evts),
             tokenTimeline |-> BuildTokenTimeline(evts),
             toolCalls |-> BuildToolCalls(evts)] >>

\* What getSessionDetail returns once parseSessionSummary has returned
\* summary (<<>> for null): the detail, in a one-element tuple.
SessionDetail(summary, evts) ==
    << [summary |-> Coalesce(summary, <<EmptySummary>>)[1],
        messages |-> BuildMessages(evts),
        tokenTimeline |-> BuildTokenTimeline(evts),
        toolCalls |-> BuildToolCalls(evts)] >>

(***************************************************************************)
(* The state machine. A builder runs loop iteration by loop iteration: the *)
(* array it folds is held in events up to the element the loop has        *)
(* reached, and each element is drawn when the loop reaches it.            *)
(***************************************************************************)
(***************************************************************************)
(* The server. Requests run as async functions on one thread: between two  *)
(* awaits a call runs without interruption, and at an await on the file    *)
(* system (fs.stat, fs.readFile) the value is sampled at some moment       *)
(* before the call goes on, while other calls run and the log writer       *)
(* appends. Each request stands at a pc:                                   *)
(*   "detailRead"   getSessionDetail awaits readJsonl's fs.readFile        *)
(*   "detailParse"  the file was read; readJsonl's loop is to run          *)
(*   "stat"         parseSessionSummary awaits fs.stat                     *)
(*   "check"        the stat is there; the cache check is to run           *)
(*   "read"         parseSessionSummary awaits readJsonl's fs.readFile     *)
(*   "fold"         the file was read; the fold and the cache write are    *)
(*                  to run                                                 *)
(*   "done"         the exported function has returned result              *)
(* The writer only appends to a log, and every append gives the file a     *)
(* later mtime. No file is removed while the server runs.                  *)
(***************************************************************************)
Requests == {"r1", "r2"}

\* The ids a detail is asked for: the two sessions, and one that has no file.
SessionIds == {"s1", "s2", "s9"}

\* The lines the writer appends.
LogLines == {Line(FALSE, ObjectBody(MetaEnvelope)), Line(FALSE, ObjectBody(UserEnvelope))}

\* The log of the first session is being written, from its first line on;
\* the log of the second session is complete.
LiveLogs == {Path1}
FinishedLog ==
    <<Line(FALSE, ObjectBody(MetaEnvelope)), Line(FALSE, ObjectBody(UserEnvelope))>>

\* A request that runs nothing: the locals of the functions, unset.
Idle ==
    [op |-> "idle", pc |-> "idle", src |-> "", todo |-> <<>>, summaries |-> <<>>,
     stat |-> 0, raw |-> <<>>, events |-> <<>>, summary |-> <<>>, result |-> <<>>]

\* The loop of getSessionSummaries from the file it has reached (the head of
\* todo) up to its next fs.stat, or to the return of getProjectSummaries.
\* A file without a session id gives null before any await.
RECURSIVE NextFile(_)
NextFile(c) ==
    IF c.todo = <<>>
      THEN LET sessions == SortSummaries(c.summaries)
           IN  [c EXCEPT !.pc = "done", !.src = "", !.summaries = sessions,
                         !.result = <<ProjectSummaries(sessions)>>]
    ELSE IF ExtractSessionId(Head(c.todo)) = <<>>
      THEN NextFile([c EXCEPT !.todo = Tail(@)])
    ELSE [c EXCEPT !.todo = Tail(@), !.src = Head(c.todo).relativePath, !.pc = "stat"]

\* A variant of the cache check that takes any entry of the path for a hit.
CacheHitAnyMtime(cached, mtimeMs) == cached # <<>>

\* The cache check of parseSessionSummary.
CacheHit(cached, mtimeMs) == cached # <<>> /\ cached[1].mtimeMs = mtimeMs

\* parseSessionSummary returns summary (<<>> for null) to the function that
\* awaits it, which runs on to its next await or to its return.
Returned(c, summary) ==
    LET back == [c EXCEPT !.summary = summary, !.stat = 0, !.raw = <<>>]
    IN  IF c.op = "projects"
          THEN NextFile([back EXCEPT !.summaries =
                           IF summary = <<>> THEN @ ELSE Append(@, summary[1])])
          ELSE [back EXCEPT !.pc = "done", !.result = SessionDetail(summary, c.events)]

\* No views derived yet.
NoDetail == [summary |-> <<>>, messages |-> <<>>, tokenTimeline |-> <<>>, toolCalls |-> <<>>]

\* The state before any builder is called.
Init ==
    /\ events = <<>>
    /\ calls = <<>>
    /\ toolCalls = <<>>
    /\ tcPc = "loop"
    /\ points = <<>>
    /\ tokenTimeline = <<>>
    /\ tlPc = "loop"
    /\ file = <<>>
    /\ rdPc = "loop"
    /\ detail = NoDetail
    /\ prevDetail = NoDetail
    /\ runs = 0
    /\ disk = [path \in Paths |->
                 IF path \in LiveLogs THEN [lines |-> <<>>, mtimeMs |-> 1]
                 ELSE [lines |-> FinishedLog, mtimeMs |-> 1]]
    /\ summaryCache = [path \in Paths |-> <<>>]
    /\ req = [r \in Requests |-> Idle]
    /\ smAcc = SummaryStart
    /\ smResult = <<>>
    /\ smPc = "loop"
    /\ ruSessions = <<>>
    /\ ruNext = 1
    /\ projMap = <<>>
    /\ ruProjects = <<>>
    /\ ruPc = "collect"
    /\ msAcc = <<>>
    /\ msResult = <<>>
    /\ msPc = "loop"

\* buildToolCalls
ToolLoop ==
    /\ tcPc = "loop"
    /\ Len(events) < MaxLen
    /\ \E e \in ToolEnvelopes :
         /\ events' = Append(events, e)
         /\ calls' = ToolStep(calls, e)
    /\ UNCHANGED <<toolCalls, tcPc, timelineVars, readerVars, detailVars, serverVars, summaryVars, rollupVars, messageVars>>

ToolReturn ==
    /\ tcPc = "loop"
    /\ toolCalls' = FinishToolCalls(calls)
    /\ tcPc' = "done"
    /\ UNCHANGED <<events, calls, timelineVars, readerVars, detailVars, serverVars, summaryVars, rollupVars, messageVars>>

NextTools == ToolLoop \/ ToolReturn

SpecTools == Init /\ [][NextTools]_vars

\* buildTokenTimeline
TimelineLoop ==
    /\ tlPc = "loop"
    /\ Len(events) < MaxLen
    /\ \E e \in TokenEnvelopes :
         /\ events' = Append(events, e)
         /\ points' = TimelineStep(points, e)
    /\ UNCHANGED <<tokenTimeline, tlPc, toolVars, readerVars, detailVars, serverVars, summaryVars, rollupVars, messageVars>>

TimelineReturn ==
    /\ tlPc = "loop"
    /\ tokenTimeline' = FinishTimeline(points)
    /\ tlPc' = "done"
    /\ UNCHANGED <<events, points, toolVars, readerVars, detailVars, serverVars, summaryVars, rollupVars, messageVars>>

NextTimeline == TimelineLoop \/ TimelineReturn

SpecTimeline == Init /\ [][NextTimeline]_vars

\* readJsonl
ReadLoop ==
    /\ rdPc = "loop"
    /\ Len(file) < MaxLen
    /\ \E line \in Lines :
         LET step == ReadStep(events, line)
         IN  /\ file' = Append(file, line)
             /\ events' = step.events
             /\ rdPc' = IF step.threw THEN "failed" ELSE "loop"
    /\ UNCHANGED <<toolVars, timelineVars, detailVars, serverVars, summaryVars, rollupVars, messageVars>>

ReadReturn ==
    /\ rdPc = "loop"
    /\ rdPc' = "done"
    /\ UNCHANGED <<events, file, toolVars, timelineVars, detailVars, serverVars, summaryVars, rollupVars, messageVars>>

NextReader == ReadLoop \/ ReadReturn

SpecReader == Init /\ [][NextReader]_vars

\* The views are derived from the decoded sequence, and derived again.
Ingest ==
    /\ runs = 0
    /\ Len(events) < MaxLen
    /\ \E e \in MixedEnvelopes : events' = Append(events, e)
    /\ UNCHANGED <<toolVars, timelineVars, readerVars, detailVars, serverVars, summaryVars, rollupVars, messageVars>>

Derive ==
    /\ runs < MaxRuns
    /\ prevDetail' = detail
    /\ detail' = DeriveViews(events)
    /\ runs' = runs + 1
    /\ UNCHANGED <<events, toolVars, timelineVars, readerVars, serverVars, summaryVars, rollupVars, messageVars>>

NextRebuild == Ingest \/ Derive

SpecRebuild == Init /\ [][NextRebuild]_vars

\* The envelopes the summary fold is run on: session-meta with and without a
\* timestamp of its own, user messages with and without text, a call, usage
\* reports (with usage, with info null, with a timestamp that is no date,
\* with none), an envelope of a kind no builder knows, and a bare one.
UserNoText ==
    Envelope(<<T1>>, "response_item",
             [type |-> "message", role |-> "user", content |-> <<>>])

UsageReport(tsOpt, usage) ==
    Envelope(tsOpt, "event_msg",
             [type |-> "token_count",
              info |-> [total_token_usage |-> usage, model_context_window |-> 4096]])

SummaryEnvelopes ==
    {MetaEnvelope,
     Envelope(<<T2>>, "session_meta", [id |-> "s1", cwd |-> HomeUProj, timestamp |-> Epoch]),
     UserEnvelope, UserNoText,
     Envelope(<<T1>>, "response_item",
              [type |-> "function_call", call_id |-> "c1", name |-> "shell",
               arguments |-> "ls"]),
     UsageReport(<<T1>>, Usage100), UsageReport(<<T2>>, Usage150),
     UsageReport(<<BadTs>>, Usage150), UsageReport(<<>>, Usage100),
     Envelope(<<T2>>, "event_msg", [type |-> "token_count"]),
     Envelope(<<Epoch>>, "compacted", [message |-> FixBug]),
     BareEnvelope}

\* parseSessionSummary on the first session's file, loop iteration by loop
\* iteration, then lines 283-301.
SummaryLoop ==
    /\ smPc = "loop"
    /\ Len(events) < MaxLen
    /\ \E e \in SummaryEnvelopes :
         /\ events' = Append(events, e)
         /\ smAcc' = SummaryStep(smAcc, e)
    /\ UNCHANGED <<smResult, smPc, toolVars, timelineVars, readerVars, detailVars,
                   serverVars, rollupVars, messageVars>>

SummaryReturn ==
    /\ smPc = "loop"
    /\ smResult' = SummaryOf(smAcc, File1)
    /\ smPc' = "done"
    /\ UNCHANGED <<events, smAcc, toolVars, timelineVars, readerVars, detailVars,
                   serverVars, rollupVars, messageVars>>

NextSummary == SummaryLoop \/ SummaryReturn

SpecSummary == Init /\ [][NextSummary]_vars

\* The directories sessions were run in: two of them give the same slug.
HomeUDashProj == <<"/", "h", "o", "m", "e", "/", "u", "-", "p", "r", "o", "j">>
SrvApp == <<"/", "s", "r", "v", "/", "a", "p", "p">>

\* The file of the n-th session of the directory.
NthFile(n) ==
    CASE n = 1 -> File1
      [] n = 2 -> File2
      [] OTHER -> SessionFile("sessions/rollout-1970-01-01T00-00-03-s" \o ToString(n)
                                \o ".jsonl", <<"s" \o ToString(n)>>)

\* The summary parseSessionSummary computes for the n-th file from a log
\* with a session-meta for cwd, last activity at the given instant and the
\* given last usage report (<<>>: none).
SummaryGiven(n, cwd, lastActivityAt, usage) ==
    SummaryRecord([cwd |-> cwd],
                  [SummaryStart EXCEPT !.startedAt = T1,
                                       !.lastActivityAt = lastActivityAt,
                                       !.tokens = usage],
                  NthFile(n))

\* getSessionSummaries pushes the summary of one more file.
CollectSummary ==
    /\ ruPc = "collect"
    /\ Len(ruSessions) < MaxLen
    /\ \E cwd \in {HomeUProj, HomeUDashProj, SrvApp}, lastActivityAt \in {T1, T2},
          usage \in {<<>>, <<Usage100>>, <<Usage150>>} :
         ruSessions' = Append(ruSessions,
                            SummaryGiven(Len(ruSessions) + 1, cwd, lastActivityAt, usage))
    /\ UNCHANGED <<events, toolVars, timelineVars, readerVars, detailVars, serverVars,
                   summaryVars, ruNext, projMap, ruProjects, ruPc, messageVars>>

\* getSessionSummaries sorts and returns; getProjectSummaries enters its loop.
SessionsReturn ==
    /\ ruPc = "collect"
    /\ ruSessions' = SortSummaries(ruSessions)
    /\ ruPc' = "loop"
    /\ UNCHANGED <<events, toolVars, timelineVars, readerVars, detailVars, serverVars,
                   summaryVars, ruNext, projMap, ruProjects, messageVars>>

\* One iteration of the loop of getProjectSummaries.
RollupLoop ==
    /\ ruPc = "loop"
    /\ ruNext <= Len(ruSessions)
    /\ projMap' = RollupStep(projMap, ruSessions[ruNext])
    /\ ruNext' = ruNext + 1
    /\ UNCHANGED <<events, toolVars, timelineVars, readerVars, detailVars, serverVars,
                   summaryVars, ruSessions, ruProjects, ruPc, messageVars>>

\* The return statement of getProjectSummaries.
RollupReturn ==
    /\ ruPc = "loop"
    /\ ruNext > Len(ruSessions)
    /\ ruProjects' = ArraySort("projects", projMap)
    /\ ruPc' = "done"
    /\ UNCHANGED <<events, toolVars, timelineVars, readerVars, detailVars, serverVars,
                   summaryVars, ruSessions, ruNext, projMap, messageVars>>

NextRollup == CollectSummary \/ SessionsReturn \/ RollupLoop \/ RollupReturn

SpecRollup == Init /\ [][NextRollup]_vars

\* A session's log as it is written, line by line: the session-meta, one
\* user message, one function_call for c1 with its function_call_output
\* right after it, and two usage reports, of 100 and then of 150 tokens. A
\* line carries any timestamp or none.
ScenarioTimestamps == {<<>>, <<T1>>, <<T2>>, <<BadTs>>}

ScenarioItems(tsOpt) ==
    [meta |-> Envelope(tsOpt, "session_meta", [id |-> "s1", cwd |-> HomeUProj]),
     user |-> Envelope(tsOpt, "response_item",
                       [type |-> "message", role |-> "user",
                        content |-> <<[type |-> "input_text", text |-> FixBug]>>]),
     call |-> Envelope(tsOpt, "response_item",
                       [type |-> "function_call", call_id |-> "c1", name |-> "shell",
                        arguments |-> "ls"]),
     output |-> Envelope(tsOpt, "response_item",
                         [type |-> "function_call_output", call_id |-> "c1",
                          output |-> "ok"]),
     usage100 |-> UsageReport(tsOpt, Usage100),
     usage150 |-> UsageReport(tsOpt, Usage150)]

\* The lines of the log, in file order.
ScenarioOrder == <<"meta", "user", "call", "output", "usage100", "usage150">>

ScenarioWrite ==
    /\ runs = 0
    /\ Len(events) < Len(ScenarioOrder)
    /\ \E tsOpt \in ScenarioTimestamps :
         events' = Append(events, ScenarioItems(tsOpt)[ScenarioOrder[Len(events) + 1]])
    /\ UNCHANGED <<toolVars, timelineVars, readerVars, detailVars, serverVars,
                   summaryVars, rollupVars, messageVars>>

\* The views are derived from the complete log.
ScenarioDerive ==
    /\ runs = 0
    /\ Len(events) = Len(ScenarioOrder)
    /\ prevDetail' = detail
    /\ detail' = DeriveViews(events)
    /\ runs' = 1
    /\ UNCHANGED <<events, toolVars, timelineVars, readerVars, serverVars,
                   summaryVars, rollupVars, messageVars>>

NextScenario == ScenarioWrite \/ ScenarioDerive

SpecScenario == Init /\ [][NextScenario]_vars

(***************************************************************************)
(* buildMessages, one loop iteration at a time, over envelopes whose       *)
(* reasoning payloads carry every shape of summary.                        *)
(***************************************************************************)
Plan == <<"p", "l", "a", "n">>

\* The JSON values of payload.summary: a list with its items, or no list.
SummaryValues ==
    {[isArray |-> FALSE],
     [isArray |-> TRUE, items |-> <<>>],
     [isArray |-> TRUE, items |-> <<[type |-> "summary_text"]>>],
     [isArray |-> TRUE, items |-> <<[type |-> "summary_text", text |-> <<>>]>>],
     [isArray |-> TRUE, items |-> <<[type |-> "summary_text", text |-> Plan]>>],
     [isArray |-> TRUE,
      items |-> <<[type |-> "summary_text"],
                  [type |-> "summary_text", text |-> Plan],
                  [type |-> "summary_text", text |-> FixBug]>>]}

ReasoningEnvelopes ==
    {Envelope(ts, "response_item", [type |-> "reasoning"]) : ts \in {<<>>, <<T1>>}}
      \cup {Envelope(ts, "response_item", [type |-> "reasoning", summary |-> v]) :
              ts \in {<<>>, <<T1>>}, v \in SummaryValues}

MessageEnvelopes ==
    ReasoningEnvelopes
      \cup {UserEnvelope,
            [type |-> "response_item"],
            Envelope(<<T1>>, "reasoning", [type |-> "reasoning"]),
            Envelope(<<Epoch>>, "event_msg", [type |-> "agent_reasoning", text |-> FixBug])}

MessageLoop ==
    /\ msPc = "loop"
    /\ Len(events) < MaxLen
    /\ \E e \in MessageEnvelopes :
         /\ events' = Append(events, e)
         /\ msAcc' = MessageStep(msAcc, e)
    /\ UNCHANGED <<msResult, msPc, toolVars, timelineVars, readerVars, detailVars,
                   serverVars, summaryVars, rollupVars>>

MessageReturn ==
    /\ msPc = "loop"
    /\ msResult' = ArraySort("messages", msAcc)
    /\ msPc' = "done"
    /\ UNCHANGED <<events, msAcc, toolVars, timelineVars, readerVars, detailVars,
                   serverVars, summaryVars, rollupVars>>

NextMessages == MessageLoop \/ MessageReturn

SpecMessages == Init /\ [][NextMessages]_vars

\* A request calls getProjectSummaries, which calls getSessionSummaries.
GetProjectSummaries(r) ==
    /\ req[r].op = "idle"
    /\ req' = [req EXCEPT ![r] =
                 NextFile([Idle EXCEPT !.op = "projects", !.todo = ListSessionFiles])]
    /\ UNCHANGED <<events, toolVars, timelineVars, readerVars, detailVars, summaryVars, rollupVars,
                   disk, summaryCache, messageVars>>

\* A request calls getSessionDetail: null when no file carries the id.
GetSessionDetail(r) ==
    /\ req[r].op = "idle"
    /\ \E sessionId \in SessionIds :
         LET filePath == FindSessionFile(sessionId)
         IN  req' = [req EXCEPT ![r] =
                       IF filePath = <<>>
                         THEN [Idle EXCEPT !.op = "detail", !.pc = "done"]
                         ELSE [Idle EXCEPT !.op = "detail", !.pc = "detailRead",
                                           !.src = filePath[1].relativePath]]
    /\ UNCHANGED <<events, toolVars, timelineVars, readerVars, detailVars, summaryVars, rollupVars,
                   disk, summaryCache, messageVars>>

\* fs.readFile for the readJsonl of getSessionDetail.
DetailReadFile(r) ==
    /\ req[r].pc = "detailRead"
    /\ req' = [req EXCEPT ![r].raw = disk[req[r].src].lines, ![r].pc = "detailParse"]
    /\ UNCHANGED <<events, toolVars, timelineVars, readerVars, detailVars, summaryVars, rollupVars,
                   disk, summaryCache, messageVars>>

\* readJsonl returns to getSessionDetail, which calls parseSessionSummary.
DetailParse(r) ==
    /\ req[r].pc = "detailParse"
    /\ req' = [req EXCEPT ![r].events = ReadJsonl(req[r].raw).events,
                          ![r].raw = <<>>, ![r].pc = "stat"]
    /\ UNCHANGED <<events, toolVars, timelineVars, readerVars, detailVars, summaryVars, rollupVars,
                   disk, summaryCache, messageVars>>

\* fs.stat
Stat(r) ==
    /\ req[r].pc = "stat"
    /\ req' = [req EXCEPT ![r].stat = disk[req[r].src].mtimeMs, ![r].pc = "check"]
    /\ UNCHANGED <<events, toolVars, timelineVars, readerVars, detailVars, summaryVars, rollupVars,
                   disk, summaryCache, messageVars>>

\* Lines 228-233: a hit returns the cached summary, a miss calls readJsonl.
CacheCheck(r) ==
    /\ req[r].pc = "check"
    /\ LET cached == summaryCache[req[r].src]
       IN  req' = [req EXCEPT ![r] =
                     IF CacheHit(cached, req[r].stat)
                       THEN Returned(req[r], <<cached[1].summary>>)
                       ELSE [req[r] EXCEPT !.pc = "read"]]
    /\ UNCHANGED <<events, toolVars, timelineVars, readerVars, detailVars, summaryVars, rollupVars,
                   disk, summaryCache, messageVars>>

\* fs.readFile for the readJsonl of parseSessionSummary.
ReadFile(r) ==
    /\ req[r].pc = "read"
    /\ req' = [req EXCEPT ![r].raw = disk[req[r].src].lines, ![r].pc = "fold"]
    /\ UNCHANGED <<events, toolVars, timelineVars, readerVars, detailVars, summaryVars, rollupVars,
                   disk, summaryCache, messageVars>>

\* A variant that stores the summary under the mtime the file has when the
\* entry is written, not the one the call observed before it read.
SummarizeUnderLaterMtime(r) ==
    /\ req[r].pc = "fold"
    /\ LET src == req[r].src
           summary == SummarizeEvents(ReadJsonl(req[r].raw).events, FileAt(src))
       IN  /\ summaryCache' =
                IF summary = <<>> THEN summaryCache
                ELSE [summaryCache EXCEPT ![src] =
                        <<[mtimeMs |-> disk[src].mtimeMs, summary |-> summary[1]]>>]
           /\ req' = [req EXCEPT ![r] = Returned(req[r], summary)]
    /\ UNCHANGED <<events, toolVars, timelineVars, readerVars, detailVars, summaryVars, rollupVars, disk, messageVars>>

\* Lines 233-304: readJsonl's loop, the fold, null without a session-meta
\* payload, else the cache write and the summary.
Summarize(r) ==
    /\ req[r].pc = "fold"
    /\ LET src == req[r].src
           summary == SummarizeEvents(ReadJsonl(req[r].raw).events, FileAt(src))
       IN  /\ summaryCache' =
                IF summary = <<>> THEN summaryCache
                ELSE [summaryCache EXCEPT ![src] =
                        <<[mtimeMs |-> req[r].stat, summary |-> summary[1]]>>]
           /\ req' = [req EXCEPT ![r] = Returned(req[r], summary)]
    /\ UNCHANGED <<events, toolVars, timelineVars, readerVars, detailVars, summaryVars, rollupVars, disk, messageVars>>

\* The response is sent: the call and its locals are gone.
Respond(r) ==
    /\ req[r].pc = "done"
    /\ req' = [req EXCEPT ![r] = Idle]
    /\ UNCHANGED <<events, toolVars, timelineVars, readerVars, detailVars, summaryVars, rollupVars,
                   disk, summaryCache, messageVars>>

\* The writer appends a line to a session's log.
AppendLine(path) ==
    /\ Len(disk[path].lines) < MaxFileLen
    /\ \E line \in LogLines :
         disk' = [disk EXCEPT ![path] = [lines |-> Append(@.lines, line),
                                         mtimeMs |-> @.mtimeMs + 1]]
    /\ UNCHANGED <<events, toolVars, timelineVars, readerVars, detailVars, summaryVars, rollupVars,
                   summaryCache, req, messageVars>>

Next ==
    \/ \E r \in Requests :
         \/ GetProjectSummaries(r)
         \/ GetSessionDetail(r)
         \/ DetailReadFile(r)
         \/ DetailParse(r)
         \/ Stat(r)
         \/ CacheCheck(r)
         \/ ReadFile(r)
         \/ Summarize(r)
         \/ Respond(r)
    \/ \E path \in LiveLogs : AppendLine(path)

Spec == Init /\ [][Next]_vars

(***************************************************************************)
(* Claims.                                                                 *)
(***************************************************************************)
IsCallStart(e) ==
    /\ e.type = "response_item"
    /\ e.payload.type \in {"function_call", "custom_tool_call"}

IsCallResult(e) ==
    /\ e.type = "response_item"
    /\ e.payload.type \in {"function_call_output", "custom_tool_call_output"}

\* The ledger's records for one id.
RecordsOf(ledger, id) == {i \in DOMAIN ledger : ledger[i].id = id}

\* The ledger's record for one id, as an optional.
RecordOf(ledger, id) ==
    IF RecordsOf(ledger, id) = {} THEN <<>>
    ELSE <<ledger[CHOOSE i \in RecordsOf(ledger, id) : TRUE]>>

Swap(evts, i, j) ==
    [k \in DOMAIN evts |-> IF k = i THEN evts[j] ELSE IF k = j THEN evts[i] ELSE evts[k]]

\* C1: order invariance of reconciliation. Whenever the log holds a
\* call-start envelope of an id directly followed by a call-result envelope
\* of the same id, the returned ledger's record for that id is the same as
\* the one buildToolCalls returns for the log with the two envelopes swapped.
C1_OrderInvariance ==
    tcPc = "done" =>
      \A i \in 1..(Len(events) - 1) :
        (/\ IsCallStart(events[i])
         /\ IsCallResult(events[i + 1])
         /\ events[i].payload.call_id = events[i + 1].payload.call_id)
        => RecordOf(toolCalls, events[i].payload.call_id)
             = RecordOf(BuildToolCalls(Swap(events, i, i + 1)),
                        events[i].payload.call_id)

\* C2: completion precedence. A step of the loop that processes a call-start
\* envelope never takes a record that is completed to another status.
C2_CompletionPrecedence ==
    [][\A id \in CallIds :
         (/\ MapGet(calls, id) # <<>>
          /\ MapGet(calls, id)[1].status = "completed"
          /\ Len(events') = Len(events) + 1
          /\ IsCallStart(events'[Len(events')]))
         => MapGet(calls', id)[1].status = "completed"]_vars

\* The call ids the log's call-start and call-result envelopes carry.
IdsIn(evts) ==
    {evts[i].payload.call_id :
       i \in {k \in DOMAIN evts : IsCallStart(evts[k]) \/ IsCallResult(evts[k])}}

\* C3: stub creation. Every call id that a call-start or call-result
\* envelope of the log carries has exactly one record in the returned ledger.
C3_OneRecordPerId ==
    tcPc = "done" =>
      \A id \in IdsIn(events) : Cardinality(RecordsOf(toolCalls, id)) = 1

\* a <= b on numbers: false when either is NaN.
NumLeq(a, b) == ~a.nan /\ ~b.nan /\ a.v <= b.v

\* C4: timeline monotonicity. In the returned timeline every point's
\* timestampMs is less than or equal to the next point's, whatever
\* timestamps the usage-report envelopes carry.
C4_TimelineMonotonic ==
    tlPc = "done" =>
      \A i \in 1..(Len(tokenTimeline) - 1) :
        NumLeq(tokenTimeline[i].timestampMs, tokenTimeline[i + 1].timestampMs)

IsInvalidLine(line) == Trim(line) \in InvalidBodies

RemoveAt(seq, pos) == SubSeq(seq, 1, pos - 1) \o SubSeq(seq, pos + 1, Len(seq))

\* C5: malformed-line resilience. The read never fails, and for every
\* syntactically invalid line of the file, the envelopes readJsonl returns
\* are the ones it returns for the file without that line.
C5_MalformedLineResilience ==
    /\ rdPc # "failed"
    /\ rdPc = "done" =>
         \A pos \in DOMAIN file :
           IsInvalidLine(file[pos])
           => /\ ~ReadJsonl(RemoveAt(file, pos)).threw
              /\ events = ReadJsonl(RemoveAt(file, pos)).events

\* A read has returned envelopes from a file that has an invalid line
\* between two lines that decode.
C5_Witness ==
    /\ rdPc = "done"
    /\ Len(file) = 3
    /\ IsInvalidLine(file[2])
    /\ Len(events) = 2

NoSessionMeta(path) ==
    LET evts == ReadJsonl(disk[path].lines).events
    IN  \A i \in DOMAIN evts :
          EventType(evts[i]) # "session_meta" \/ ToRecord(evts[i]) = <<>>

\* The sessions a list of project rollups counts.
RECURSIVE SessionsCounted(_)
SessionsCounted(projects) ==
    IF projects = <<>> THEN 0
    ELSE Head(projects).sessionCount + SessionsCounted(Tail(projects))

\* C7: a log without a session-meta envelope yields no summary:
\* parseSessionSummary has returned null to a getSessionDetail that asked for
\* it, no summary in the list of getSessionSummaries carries its session id,
\* and the rollups of getProjectSummaries count no more sessions than there
\* are logs with a session-meta envelope.
C7_NoMetaNoSummary ==
    \A r \in Requests :
      /\ (req[r].op = "detail" /\ req[r].pc = "done" /\ req[r].src # ""
          /\ NoSessionMeta(req[r].src))
           => req[r].summary = <<>>
      /\ (req[r].op = "projects" /\ req[r].pc = "done")
           => /\ \A path \in Paths : \A i \in DOMAIN req[r].summaries :
                   NoSessionMeta(path)
                     => req[r].summaries[i].id # FileAt(path).sessionId
              /\ SessionsCounted(req[r].result[1])
                   <= Cardinality({path \in Paths : ~NoSessionMeta(path)})

\* getProjectSummaries has returned while the first session's log holds
\* lines but no session-meta: the list holds the second session alone.
C7_Witness ==
    \E r \in Requests :
      /\ req[r].op = "projects" /\ req[r].pc = "done"
      /\ disk[Path1].lines # <<>> /\ NoSessionMeta(Path1)
      /\ Len(req[r].summaries) = 1
      /\ req[r].summaries[1].id = "s2"
      /\ SessionsCounted(req[r].result[1]) = 1

\* C8 as stated: when a session's log has no session-meta envelope,
\* getSessionDetail reports the session as absent: it returns null.
C8_AbsentWithoutMeta ==
    \A r \in Requests :
      (req[r].op = "detail" /\ req[r].pc = "done" /\ req[r].src # ""
       /\ NoSessionMeta(req[r].src))
        => req[r].result = <<>>

\* C8: when a session's log has no session-meta envelope, getSessionDetail
\* returns, without an error, a detail whose summary is the placeholder
\* emptySummary, next to the views built from the envelopes it read.
C8_PlaceholderWithoutMeta ==
    \A r \in Requests :
      (req[r].op = "detail" /\ req[r].pc = "done" /\ req[r].src # ""
       /\ NoSessionMeta(req[r].src))
        => /\ req[r].result # <<>>
           /\ req[r].result[1].summary = EmptySummary
           /\ req[r].result[1].messages = BuildMessages(req[r].events)

\* getSessionDetail has returned for the first session, whose log holds a
\* user message and no session-meta.
C8_Witness ==
    \E r \in Requests :
      /\ req[r].op = "detail" /\ req[r].pc = "done" /\ req[r].src = Path1
      /\ NoSessionMeta(Path1)
      /\ req[r].result # <<>>
      /\ Len(req[r].result[1].messages) = 1

\* C9 as stated: a hit returns the stored summary without reading; else the
\* log is read and the summary recomputed, after which the entry of the path
\* holds the file's current mtime and the new summary.
C9_EntryHoldsCurrentMtime ==
    [][\A r \in Requests :
         LET c == req[r]
             cached == summaryCache[c.src]
         IN  /\ (c.pc = "check" /\ req'[r] # c)
                  => IF cached # <<>> /\ cached[1].mtimeMs = c.stat
                       THEN req'[r].summary = <<cached[1].summary>> /\ req'[r].pc # "read"
                       ELSE req'[r].pc = "read"
             /\ (c.pc = "fold" /\ req'[r] # c)
                  => /\ summaryCache'[c.src] # <<>>
                     /\ summaryCache'[c.src][1].mtimeMs = disk'[c.src].mtimeMs
                     /\ req'[r].summary = <<summaryCache'[c.src][1].summary>>]_vars

\* C9: a call whose fs.stat observed the mtime stored in the entry of its path
\* returns the stored summary without reading the log; with no entry or
\* another mtime it reads the log and recomputes, after which, when the log
\* it read holds a session-meta envelope, the entry of the path holds the
\* mtime the call observed and the summary it computed; when it holds none,
\* the call returns null and the cache is left as it was.
C9_Memoization ==
    [][\A r \in Requests :
         LET c == req[r]
             cached == summaryCache[c.src]
         IN  /\ (c.pc = "check" /\ req'[r] # c)
                  => /\ summaryCache' = summaryCache
                     /\ IF cached # <<>> /\ cached[1].mtimeMs = c.stat
                          THEN req'[r].summary = <<cached[1].summary>>
                               /\ req'[r].pc # "read"
                          ELSE req'[r].pc = "read"
             /\ (c.pc = "fold" /\ req'[r] # c)
                  => LET computed == SummarizeEvents(ReadJsonl(c.raw).events, FileAt(c.src))
                     IN  /\ req'[r].summary = computed
                         /\ \A path \in Paths \ {c.src} :
                              summaryCache'[path] = summaryCache[path]
                         /\ IF computed = <<>>
                              THEN summaryCache'[c.src] = summaryCache[c.src]
                              ELSE summaryCache'[c.src] =
                                     <<[mtimeMs |-> c.stat, summary |-> computed[1]]>>]_vars

\* A call stands at the cache check of the first session's log, modified
\* since it was created, and the entry stored by an earlier call carries the
\* mtime this call observed, while another entry has been recomputed.
C9_Witness ==
    \E r \in Requests :
      /\ req[r].pc = "check" /\ req[r].src = Path1
      /\ summaryCache[Path1] # <<>>
      /\ summaryCache[Path1][1].mtimeMs = req[r].stat
      /\ req[r].stat > 2

\* C10 as stated: of two calls that run parseSessionSummary for the same path
\* and observed the same mtime, the file's current one, at most one is
\* between its cache check and its cache write (reading the log or about to
\* fold what it read).
C10_SingleWriterPerKey ==
    \A r1, r2 \in Requests :
      (/\ r1 # r2
       /\ req[r1].src = req[r2].src
       /\ req[r1].stat = req[r2].stat
       /\ req[r1].pc \in {"read", "fold"}
       /\ disk[req[r1].src].mtimeMs = req[r1].stat)
        => req[r2].pc \notin {"read", "fold"}

\* The positions of the usage reports with usage info in a decoded sequence.
UsageReports(evts) ==
    {i \in DOMAIN evts :
       /\ EventType(evts[i]) = "event_msg"
       /\ ToRecord(evts[i]) # <<>>
       /\ Opt(ToRecord(evts[i])[1], "type") = <<"token_count">>
       /\ Has(ToRecord(evts[i])[1], "info")}

\* C11: the token fields of the summary are those of the last usage report
\* with usage info in file order (userTokens = max(0, input - cached)), and
\* all 0 when the log has none.
C11_LastWriteWins ==
    (smPc = "done" /\ smResult # <<>>)
      => LET reports == UsageReports(events)
             s == smResult[1]
         IN  IF reports = {}
               THEN /\ s.totalTokens = 0 /\ s.cachedTokens = 0 /\ s.userTokens = 0
                    /\ s.outputTokens = 0 /\ s.reasoningTokens = 0
               ELSE LET last == Greatest(reports)
                        u == events[last].payload.info.total_token_usage
                    IN  /\ s.totalTokens = u.total_tokens
                        /\ s.cachedTokens = u.cached_input_tokens
                        /\ s.outputTokens = u.output_tokens
                        /\ s.reasoningTokens = u.reasoning_output_tokens
                        /\ s.userTokens = Max(0, u.input_tokens - u.cached_input_tokens)

\* The log reports 150 tokens and then 100: the summary says 100.
C11_Witness ==
    /\ smPc = "done" /\ smResult # <<>>
    /\ Cardinality(UsageReports(events)) = 2
    /\ events[Least(UsageReports(events))].payload.info.total_token_usage = Usage150
    /\ smResult[1].totalTokens = 100

\* The place of a transcript entry in the order the loop of buildMessages
\* emitted the entries.
EncounterPlace(evts, message) ==
    LET emitted == MessageFold(<<>>, evts)
    IN  CHOOSE k \in DOMAIN emitted : emitted[k] = message

\* C12 as stated: the transcript is in ascending order of timestamp, and two
\* entries with the same timestamp stand in the order in which their
\* envelopes were encountered.
C12_TranscriptOrder ==
    runs >= 1
      => \A i, j \in DOMAIN detail.messages :
           i < j =>
             /\ ~StrGt(detail.messages[i].timestamp, detail.messages[j].timestamp)
             /\ detail.messages[i].timestamp = detail.messages[j].timestamp
                  => EncounterPlace(events, detail.messages[i])
                       < EncounterPlace(events, detail.messages[j])

\* The positions of the user messages whose extracted text is not empty.
UserTexts(evts) ==
    {i \in DOMAIN evts :
       /\ EventType(evts[i]) = "response_item"
       /\ ToRecord(evts[i]) # <<>>
       /\ Opt(ToRecord(evts[i])[1], "type") = <<"message">>
       /\ Opt(ToRecord(evts[i])[1], "role") = <<"user">>
       /\ ExtractText(Opt(ToRecord(evts[i])[1], "content")) # <<>>}

\* C13 as stated: the preview of the summary is composed from the first user
\* message, in file order, whose extracted text is not empty, whatever user
\* messages with empty text precede it.
C13_PreviewSelection ==
    (smPc = "done" /\ smResult # <<>> /\ UserTexts(events) # {})
      => smResult[1].preview =
           ComposePreview(ExtractText(
             Opt(events[Least(UserTexts(events))].payload, "content")))

\* The sessions of a project, as positions in the list of summaries.
Members(list, projectId) == {i \in DOMAIN list : list[i].projectId = projectId}

\* The sum of totalTokens over the sessions of a project.
RECURSIVE TokensOf(_, _)
TokensOf(list, projectId) ==
    IF list = <<>> THEN 0
    ELSE (IF Head(list).projectId = projectId THEN Head(list).totalTokens ELSE 0)
         + TokensOf(Tail(list), projectId)

\* C14: getProjectSummaries returns one ProjectSummary per projectId among
\* the session summaries, whose sessionCount is the number of its sessions,
\* whose totalTokens is the sum of theirs and whose latestActivityAt is the
\* greatest of their lastActivityAt.
C14_ProjectRollup ==
    ruPc = "done"
      => /\ Len(ruProjects) = Cardinality({ruSessions[i].projectId : i \in DOMAIN ruSessions})
         /\ \A i \in DOMAIN ruSessions :
              \E k \in DOMAIN ruProjects :
                LET project == ruProjects[k]
                    members == Members(ruSessions, project.id)
                IN  /\ project.id = ruSessions[i].projectId
                    /\ project.sessionCount = Cardinality(members)
                    /\ project.totalTokens = TokensOf(ruSessions, project.id)
                    /\ \E m \in members :
                         project.latestActivityAt = ruSessions[m].lastActivityAt
                    /\ \A m \in members :
                         ~StrGt(ruSessions[m].lastActivityAt, project.latestActivityAt)

\* Three sessions in two projects; the project with two sessions has them
\* under two directories, with different totals and different last activity.
C14_Witness ==
    /\ ruPc = "done"
    /\ Len(ruSessions) = 3
    /\ Len(ruProjects) = 2
    /\ \E k \in DOMAIN ruProjects :
         /\ ruProjects[k].sessionCount = 2
         /\ ruProjects[k].totalTokens = 250
         /\ ruProjects[k].latestActivityAt = T2
         /\ \E i, j \in Members(ruSessions, ruProjects[k].id) :
              /\ ruSessions[i].lastActivityAt = T1
              /\ ruSessions[i].projectPath # ruSessions[j].projectPath

HomeUProjSlug == <<"h", "o", "m", "e", "-", "u", "-", "p", "r", "o", "j">>

\* What the scenario is said to produce.
ScenarioOutcome ==
    /\ detail.summary # <<>>
    /\ detail.summary[1].projectId = HomeUProjSlug
    /\ detail.summary[1].preview = FixBug
    /\ detail.summary[1].toolCallCount = 1
    /\ detail.summary[1].totalTokens = 150
    /\ Len(detail.toolCalls) = 1
    /\ detail.toolCalls[1].status = "completed"
    /\ Has(detail.toolCalls[1], "durationMs")
    /\ ~detail.toolCalls[1].durationMs.nan
    /\ Len(detail.tokenTimeline) = 2
    /\ NumLeq(detail.tokenTimeline[1].timestampMs, detail.tokenTimeline[2].timestampMs)

\* C15 as stated: the views derived from a log of the scenario are the ones
\* the scenario names.
C15_Scenario == (runs = 1 /\ Len(events) = Len(ScenarioOrder)) => ScenarioOutcome

\* Every line of the log carries a timestamp that is a date.
AllDated(evts) ==
    \A i \in DOMAIN evts :
      EventTimestamp(evts[i]) # <<>> /\ ~GetTime(EventTimestamp(evts[i])[1]).nan

\* C15: the views derived from a log of the scenario in which every line
\* carries a parseable timestamp are the ones the scenario names.
C15_DatedScenario ==
    (runs = 1 /\ Len(events) = Len(ScenarioOrder) /\ AllDated(events)) => ScenarioOutcome

\* The views of a dated log whose call took a second and whose usage
\* reports are a second apart.
C15_Witness ==
    /\ runs = 1 /\ Len(events) = Len(ScenarioOrder) /\ AllDated(events)
    /\ detail.toolCalls[1].durationMs = Num(1000)
    /\ detail.tokenTimeline[1].totalTokens = 100
    /\ detail.tokenTimeline[2].timestampMs = Num(2000)

\* The timestamps the envelopes of a decoded sequence carry.
Stamps(evts) ==
    {EventTimestamp(evts[i])[1] : i \in {k \in DOMAIN evts : EventTimestamp(evts[k]) # <<>>}}

\* The positions of the session-meta envelopes whose payload has a timestamp.
DatedMetas(evts) ==
    {i \in DOMAIN evts :
       /\ EventType(evts[i]) = "session_meta"
       /\ ToRecord(evts[i]) # <<>>
       /\ Has(ToRecord(evts[i])[1], "timestamp")}

\* Every timestamp of the log is a date.
AllParseable(evts) == \A ts \in Stamps(evts) : ~GetTime(ts).nan

\* C16 as stated, for a log whose timestamps are all dates: startedAt is the
\* session-meta's own timestamp when it has one, wherever it stands, and else
\* the earliest of the timestamps of the envelopes, in whatever order they
\* stand in the file.
C16_StartBound ==
    (smPc = "done" /\ smResult # <<>> /\ AllParseable(events))
      => IF DatedMetas(events) # {}
           THEN smResult[1].startedAt
                  = events[Greatest(DatedMetas(events))].payload.timestamp
           ELSE Stamps(events) # {}
                  => /\ smResult[1].startedAt \in Stamps(events)
                     /\ \A ts \in Stamps(events) : ~StrLt(ts, smResult[1].startedAt)

\* C17 as stated, for a log whose timestamps are all dates: lastActivityAt is
\* the latest of the timestamps of the envelopes, even when the envelope that
\* carries it is not the last dated line.
C17_EndBound ==
    (smPc = "done" /\ smResult # <<>> /\ AllParseable(events) /\ Stamps(events) # {})
      => /\ smResult[1].lastActivityAt \in Stamps(events)
         /\ \A ts \in Stamps(events) : ~StrGt(ts, smResult[1].lastActivityAt)

\* C18 as stated: a record of the Map is in_progress as long as the loop has
\* processed no call-result envelope for its id; it is completed only through
\* such an envelope, never through a call-start.
C18_StatusLifecycle ==
    \A k \in DOMAIN calls :
      (\A i \in DOMAIN events :
         ~(IsCallResult(events[i]) /\ events[i].payload.call_id = calls[k].id))
        => calls[k].status = "in_progress"

\* The positions of the usage reports with usage whose timestamp is there and
\* is a date.
DatedReports(evts) ==
    {i \in UsageReports(evts) :
       /\ Has(evts[i].payload.info, "total_token_usage")
       /\ EventTimestamp(evts[i]) # <<>>
       /\ ~GetTime(EventTimestamp(evts[i])[1]).nan}

\* C19 as stated: the timeline has one point per usage report with usage and
\* a parseable timestamp, and none for a report whose timestamp is missing or
\* unparseable.
C19_UndatedReportsDropped ==
    tlPc = "done" => Len(tokenTimeline) = Cardinality(DatedReports(events))

\* Envelopes whose kind tag no builder knows, dated and undated.
UnknownEnvelopes ==
    {Envelope(<<>>, "compacted", [message |-> FixBug]),
     Envelope(<<T2>>, "compacted", [message |-> FixBug]),
     Envelope(<<Epoch>>, "plugin_event", [type |-> "message", role |-> "user"])}

InsertAt(seq, pos, e) == SubSeq(seq, 1, pos) \o <<e>> \o SubSeq(seq, pos + 1, Len(seq))

\* C20 as stated: an envelope of an unknown kind inserted at any place in the
\* log leaves the summary, the transcript, the token timeline and the
\* tool-call ledger as they were.
C20_ForwardCompatibility ==
    runs >= 1
      => \A pos \in 0..Len(events) : \A e \in UnknownEnvelopes :
           DeriveViews(InsertAt(events, pos, e)) = detail

\* The place of the record of an id in the Map, that is in the order in which
\* the ids were first sighted.
SightingPlace(map, id) == CHOOSE k \in DOMAIN map : map[k].id = id

\* C21 as stated: in the returned ledger the records with startedAt stand in
\* ascending order of startedAt, the records without startedAt stand in the
\* order of first sighting, a record without any timestamp stands after every
\* record that has one, and the sort drops no record.
C21_LedgerOrdering ==
    tcPc = "done"
      => /\ Len(toolCalls) = Len(calls)
         /\ \A i, j \in DOMAIN toolCalls :
              i < j =>
                /\ (Has(toolCalls[i], "startedAt") /\ Has(toolCalls[j], "startedAt"))
                     => ~StrGt(toolCalls[i].startedAt, toolCalls[j].startedAt)
                /\ (~Has(toolCalls[i], "startedAt") /\ ~Has(toolCalls[j], "startedAt"))
                     => SightingPlace(calls, toolCalls[i].id)
                          < SightingPlace(calls, toolCalls[j].id)
                /\ ~(/\ ~Has(toolCalls[i], "startedAt")
                     /\ ~Has(toolCalls[i], "completedAt")
                     /\ (Has(toolCalls[j], "startedAt") \/ Has(toolCalls[j], "completedAt")))

IsReasoning(event) ==
    /\ EventType(event) = "response_item"
    /\ Has(event, "payload")
    /\ Has(event.payload, "type")
    /\ event.payload.type = "reasoning"

\* The summary has no extractable text: it is absent, no list, or a list
\* without an item that has a non-empty text.
NoExtractableText(event) ==
    \/ ~Has(event.payload, "summary")
    \/ ~event.payload.summary.isArray
    \/ \A k \in DOMAIN event.payload.summary.items :
         \/ ~Has(event.payload.summary.items[k], "text")
         \/ event.payload.summary.items[k].text = <<>>

\* The id buildMessages gives the entry of the envelope at place i: its
\* timestamp, the kind and the number of entries made before it.
ReasoningId(evts, i) ==
    TimestampInTemplate(evts[i]) \o "-reasoning-"
      \o ToString(Len(MessageFold(<<>>, SubSeq(evts, 1, i - 1))))

\* C23: every reasoning envelope yields exactly one entry of the returned
\* transcript, with role assistant and kind reasoning; the entry's text is
\* the fixed placeholder when the summary has no extractable text; and the
\* transcript has no other reasoning entry.
C23_ReasoningNeverOmitted ==
    msPc = "done"
      => /\ \A i \in DOMAIN events :
              IsReasoning(events[i])
                => /\ Cardinality({k \in DOMAIN msResult :
                                     msResult[k].id = ReasoningId(events, i)}) = 1
                   /\ \A k \in DOMAIN msResult :
                        msResult[k].id = ReasoningId(events, i)
                          => /\ msResult[k].role = "assistant"
                             /\ msResult[k].kind = "reasoning"
                             /\ msResult[k].text # <<>>
                             /\ NoExtractableText(events[i])
                                  => msResult[k].text = ReasoningHidden
         /\ Cardinality({k \in DOMAIN msResult : msResult[k].kind = "reasoning"})
              = Cardinality({i \in DOMAIN events : IsReasoning(events[i])})

\* Three reasoning envelopes were read, one whose summary is no list, one
\* whose list has an item with an empty text, one with two texts; the
\* transcript has three reasoning entries, two of them the placeholder.
C23_Witness ==
    /\ msPc = "done"
    /\ Len(events) = 3
    /\ \A i \in DOMAIN events : IsReasoning(events[i]) /\ Has(events[i].payload, "summary")
    /\ \E i \in DOMAIN events : ~events[i].payload.summary.isArray
    /\ \E i \in DOMAIN events :
         /\ events[i].payload.summary.isArray
         /\ Len(events[i].payload.summary.items) = 1
         /\ Has(events[i].payload.summary.items[1], "text")
         /\ NoExtractableText(events[i])
    /\ \E i \in DOMAIN events : ~NoExtractableText(events[i])
    /\ Len(msResult) = 3
    /\ Cardinality({k \in DOMAIN msResult : msResult[k].text = ReasoningHidden}) = 2
    /\ \E k \in DOMAIN msResult : msResult[k].text = Plan \o <<"\n">> \o FixBug

\* A custom call-result envelope whose output string is no JSON.
IsUndecodableResult(e) ==
    /\ e.type = "response_item"
    /\ e.payload.type = "custom_tool_call_output"
    /\ SafeParse(e.payload.output) = <<>>

\* The records of a Map other than the one of the id.
OtherRecords(map, id) == SelectSeq(map, LAMBDA call : call.id # id)

\* C24: when the loop has processed a custom call-result envelope whose
\* output string does not decode and whose id has a record, that record's
\* output is the raw string, its status is completed and it has completedAt;
\* the records of the other ids are as they were before the envelope.
C24_RawOutputFallback ==
    \A i \in DOMAIN events :
      LET before == ToolFold(<<>>, SubSeq(events, 1, i - 1))
          after == ToolStep(before, events[i])
          id == events[i].payload.call_id
      IN  (IsUndecodableResult(events[i]) /\ MapGet(before, id) # <<>>)
            => /\ MapGet(after, id) # <<>>
               /\ Has(MapGet(after, id)[1], "output")
               /\ MapGet(after, id)[1].output = events[i].payload.output
               /\ MapGet(after, id)[1].status = "completed"
               /\ Has(MapGet(after, id)[1], "completedAt")
               /\ OtherRecords(after, id) = OtherRecords(before, id)

\* The same, with completedAt required only when the result envelope has a
\* timestamp.
C24_DatedResultFallback ==
    \A i \in DOMAIN events :
      LET before == ToolFold(<<>>, SubSeq(events, 1, i - 1))
          after == ToolStep(before, events[i])
          id == events[i].payload.call_id
      IN  (IsUndecodableResult(events[i]) /\ MapGet(before, id) # <<>>)
            => /\ MapGet(after, id) # <<>>
               /\ Has(MapGet(after, id)[1], "output")
               /\ MapGet(after, id)[1].output = events[i].payload.output
               /\ MapGet(after, id)[1].status = "completed"
               /\ (Has(events[i], "timestamp") => Has(MapGet(after, id)[1], "completedAt"))
               /\ OtherRecords(after, id) = OtherRecords(before, id)

\* C25: every project of the returned list has a latestActivityAt, and the
\* list descends by it: of two adjacent entries the earlier one's
\* latestActivityAt is greater than or equal to the later one's. (No entry
\* has an unresolved date, so no two such entries can change places.)
C25_ProjectOrdering ==
    ruPc = "done"
      => /\ Len(ruProjects) = Len(projMap)
         /\ \A k \in DOMAIN ruProjects :
              Has(ruProjects[k], "latestActivityAt") /\ ruProjects[k].latestActivityAt # ""
         /\ \A k \in DOMAIN ruProjects :
              k < Len(ruProjects)
                => ~StrLt(ruProjects[k].latestActivityAt, ruProjects[k + 1].latestActivityAt)

\* Three sessions of two projects were rolled up; the project that was
\* active last is returned first, the other one, with two sessions, second.
C25_Witness ==
    /\ ruPc = "done"
    /\ Len(ruSessions) = 3
    /\ Len(ruProjects) = 2
    /\ ruProjects[1].latestActivityAt = T2
    /\ ruProjects[2].latestActivityAt = T1
    /\ ruProjects[2].sessionCount = 2

\* The tool-call envelopes of a log: the response items whose payload has
\* type function_call or custom_tool_call and carries a call id.
ToolCallEnvelopes(evts) ==
    {i \in DOMAIN evts :
       /\ EventType(evts[i]) = "response_item"
       /\ Has(evts[i], "payload")
       /\ Has(evts[i].payload, "type")
       /\ evts[i].payload.type \in {"function_call", "custom_tool_call"}
       /\ Has(evts[i].payload, "call_id")}

C29_CountAgreement ==
    runs > 0
      => /\ Cardinality(SummaryFold(SummaryStart, events).toolCalls)
              = Len(detail.toolCalls)
         /\ detail.summary # <<>>
              => detail.summary[1].toolCallCount = Len(detail.toolCalls)

\* The sequence has a call of one id and a result of another id: the summary
\* counts one call and the ledger has one record.
C29_Witness ==
    /\ runs > 0
    /\ detail.summary # <<>>
    /\ Cardinality(ToolCallEnvelopes(events)) = 1
    /\ \E i \in DOMAIN events, j \in ToolCallEnvelopes(events) :
         /\ Has(events[i], "payload")
         /\ Has(events[i].payload, "type")
         /\ events[i].payload.type = "function_call_output"
         /\ events[i].payload.call_id # events[j].payload.call_id
    /\ detail.summary[1].toolCallCount = 1
    /\ Len(detail.toolCalls) = 1

\* A line that, trimmed, is not empty, does not start with the diagnostic
\* prefix and is the JSON text of an object.
IsObjectLine(line) == line.body.kind = "object"

\* The values of the object lines of a file, in the order of the lines.
RECURSIVE ObjectsOf(_)
ObjectsOf(lines) ==
    IF lines = <<>> THEN <<>>
    ELSE IF IsObjectLine(Head(lines))
           THEN <<Head(lines).body.value>> \o ObjectsOf(Tail(lines))
           ELSE ObjectsOf(Tail(lines))

\* C27: readJsonl returns the objects of the file's object lines, one for
\* each such line and in the order of the lines; every other line (empty,
\* white space, diagnostic, array, number, null, no JSON) gives nothing.
C27_ReaderOutput ==
    rdPc = "done" => events = ObjectsOf(file)

\* A file of three lines was read: two different object lines with a line
\* between them that is none; the two objects are returned in file order.
C27_Witness ==
    /\ rdPc = "done"
    /\ Len(file) = 3
    /\ IsObjectLine(file[1])
    /\ ~IsObjectLine(file[2])
    /\ file[2].body.kind \in {"array", "null", "diagnostic"}
    /\ IsObjectLine(file[3])
    /\ file[1].body.value # file[3].body.value
    /\ events = <<file[1].body.value, file[3].body.value>>

\* C28: ledger growth. For the log read and every log it extends (each of
\* its prefixes), every id with a record in the ledger of the shorter log has
\* a record in the returned ledger, and a record that is completed in the
\* ledger of the shorter log is completed in the returned one.
C28_LedgerGrowth ==
    tcPc = "done"
      => \A n \in 0..Len(events) :
           LET shorter == BuildToolCalls(SubSeq(events, 1, n))
           IN  \A k \in DOMAIN shorter :
                 /\ RecordsOf(toolCalls, shorter[k].id) # {}
                 /\ shorter[k].status = "completed"
                      => RecordOf(toolCalls, shorter[k].id)[1].status = "completed"

\* The part of C28 about the ids: no record is lost when the log grows.
C28_RecordsKept ==
    tcPc = "done"
      => \A n \in 0..Len(events) :
           LET shorter == BuildToolCalls(SubSeq(events, 1, n))
           IN  \A k \in DOMAIN shorter : RecordsOf(toolCalls, shorter[k].id) # {}

\* The number of lines a log had when its mtime was mtimeMs: a log being
\* written gets its mtime raised with every line, a finished one has all its
\* lines at its one mtime.
LinesAt(path, mtimeMs) ==
    IF path \in LiveLogs THEN mtimeMs - 1 ELSE Len(disk[path].lines)

\* The summary is the one of the log's first n lines, for some n from
\* atLeast on: it was not computed from older content.
FreshFrom(path, summary, atLeast) ==
    \E n \in atLeast..Len(disk[path].lines) :
      <<summary>> = SummarizeEvents(ReadJsonl(SubSeq(disk[path].lines, 1, n)).events,
                                    FileAt(path))

\* C30: whenever a call of parseSessionSummary returns from the cache, the
\* summary it returns is the summary of the content the file had at the
\* mtime the call observed, or of later content, whatever other calls and
\* the writer have done in between.
C30_CacheFreshness ==
    [][\A r \in Requests :
         LET c == req[r]
         IN  (c.pc = "check" /\ req'[r] # c /\ req'[r].pc # "read")
               => /\ req'[r].summary # <<>>
                  /\ FreshFrom(c.src, req'[r].summary[1], LinesAt(c.src, c.stat))]_vars

\* What makes it so: every entry of the cache holds a summary no older than
\* the content the file had at the entry's mtime.
C30_EntriesFresh ==
    \A path \in Paths :
      summaryCache[path] # <<>>
        => FreshFrom(path, summaryCache[path][1].summary,
                     LinesAt(path, summaryCache[path][1].mtimeMs))

\* A call stands at the cache check of the first session's log with the
\* mtime of the entry, observed after the first line was written; the log
\* has been modified since, and the other request is between its own cache
\* check and its cache write for the same log.
C30_Witness ==
    \E r1, r2 \in Requests :
      /\ r1 # r2
      /\ req[r1].pc = "check" /\ req[r1].src = Path1
      /\ summaryCache[Path1] # <<>>
      /\ summaryCache[Path1][1].mtimeMs = req[r1].stat
      /\ req[r1].stat = 2
      /\ disk[Path1].mtimeMs = 3
      /\ req[r2].src = Path1 /\ req[r2].pc \in {"read", "fold"}

====
